---- MODULE Spec2Model ----
(***************************************************************************)
(* Range-to-ternary encoders of the CGFE repository: prefix expansion      *)
(* (Prefix_code.cpp), SRGE (Gray_code.cpp), DIRPE (Chunk_code.cpp) and     *)
(* CGFE (CGFE_code.cpp), and the per-rule product of source and            *)
(* destination patterns.  A ternary pattern is a sequence over             *)
(* {"0", "1", "*"}.  Unsigned 16-bit values are naturals below 65536.      *)
(***************************************************************************)
EXTENDS Integers, Sequences, FiniteSets, TLC

VARIABLES pc, alg, cfg, lo, hi, result, port_table, coded, tcam, b, all_ones, all_zeros,
          written, reported, unwritable, exit_code

vars == <<pc, alg, cfg, lo, hi, result, port_table, coded, tcam, b, all_ones, all_zeros,
          written, reported, unwritable, exit_code>>

\* the output side of a run: the entry lines written to each stream, the
\* output files whose open failure was reported on std::cerr, the output
\* files that cannot be opened, and the exit code of main (-1 while it runs)
io == <<written, reported, unwritable, exit_code>>

\* the output file of each algorithm, and standard output
Streams == {"PFX", "SRGE", "DIRPE", "CGFE", "stdout"}

\* nothing written, nothing reported, main still running
NoOutput ==
    /\ written = [s \in Streams |-> <<>>]
    /\ reported = {}
    /\ exit_code = -1

(***************************************************************************)
(* Bounds of the model.                                                    *)
(***************************************************************************)
\* widths 2..MaxBits are enumerated exhaustively for SRGE, DIRPE and CGFE
MaxBits == 4
\* PFX ranges are drawn from 0..MaxPort and 65535-MaxPort..65535
MaxPort == 5

(***************************************************************************)
(* Machine arithmetic.                                                     *)
(***************************************************************************)
Pow2(n) == 2 ^ n

\* conversion to uint16_t
U16(x) == IF x < 0 THEN (x + 65536) % 65536 ELSE x % 65536

Bit(x, i) == (x \div Pow2(i)) % 2

RECURSIVE BitAnd(_, _)
BitAnd(x, y) ==
    IF x = 0 \/ y = 0 THEN 0
    ELSE ((x % 2) * (y % 2)) + 2 * BitAnd(x \div 2, y \div 2)

RECURSIVE BitOr(_, _)
BitOr(x, y) ==
    IF x = 0 THEN y
    ELSE IF y = 0 THEN x
    ELSE (IF (x % 2) + (y % 2) > 0 THEN 1 ELSE 0) + 2 * BitOr(x \div 2, y \div 2)

RECURSIVE BitXor(_, _)
BitXor(x, y) ==
    IF x = 0 THEN y
    ELSE IF y = 0 THEN x
    ELSE (((x % 2) + (y % 2)) % 2) + 2 * BitXor(x \div 2, y \div 2)

Min(x, y) == IF x <= y THEN x ELSE y
Max(x, y) == IF x >= y THEN x ELSE y

\* std::string(n, ch)
Repeat(ch, n) == [i \in 1..n |-> ch]

RECURSIVE Concat(_)
Concat(ss) == IF ss = <<>> THEN <<>> ELSE Head(ss) \o Concat(Tail(ss))

\* a ternary pattern matches a codeword of the same length symbol by symbol
Matches(pat, word) ==
    /\ Len(pat) = Len(word)
    /\ \A i \in 1..Len(pat) : pat[i] = "*" \/ pat[i] = word[i]

HasStar(pat) == \E i \in 1..Len(pat) : pat[i] = "*"
AllStar(pat) == \A i \in 1..Len(pat) : pat[i] = "*"

(***************************************************************************)
(* Prefix expansion (Prefix_code.cpp).                                     *)
(***************************************************************************)
\* faulty variant: the alignment test s % 2^k = 0 is dropped
RECURSIVE pfx_best_k_unaligned(_, _, _, _)
pfx_best_k_unaligned(s, h, k, best) ==
    IF k > 16 THEN best
    ELSE IF s + Pow2(k) - 1 <= h
         THEN pfx_best_k_unaligned(s, h, k + 1, k)
         ELSE best

\* faulty variant: the loop stops at k = 15, so no block spans the whole domain
RECURSIVE pfx_best_k_short(_, _, _, _)
pfx_best_k_short(s, h, k, best) ==
    IF k > 15 THEN best
    ELSE IF s % Pow2(k) = 0 /\ s + Pow2(k) - 1 <= h
         THEN pfx_best_k_short(s, h, k + 1, k)
         ELSE best

\* faulty variant: the loop stops after k = 0, so every block is one value
RECURSIVE pfx_best_k_single(_, _, _, _)
pfx_best_k_single(s, h, k, best) ==
    IF k > 0 THEN best
    ELSE IF s % Pow2(k) = 0 /\ s + Pow2(k) - 1 <= h
         THEN pfx_best_k_single(s, h, k + 1, k)
         ELSE best

\* the inner for loop: k runs 0..16 and stops at the first k that fails
RECURSIVE pfx_best_k(_, _, _, _)
pfx_best_k(s, h, k, best) ==
    IF k > 16 THEN best
    ELSE IF s % Pow2(k) = 0 /\ s + Pow2(k) - 1 <= h
         THEN pfx_best_k(s, h, k + 1, k)
         ELSE best

\* faulty variant: the mask of the wildcard bits instead of the fixed bits
pfx_mask_wildcards(best_k) == IF best_k >= 16 THEN 65535 ELSE Pow2(best_k) - 1

pfx_mask(best_k) == IF best_k >= 16 THEN 0 ELSE U16(65535 * Pow2(best_k))

\* the while loop over the 32-bit cursor s
RECURSIVE pfx_loop(_, _)
pfx_loop(s, h) ==
    IF s <= h
    THEN LET best_k == pfx_best_k(s, h, 0, 0)
         IN  <<[prefix |-> U16(s), mask |-> pfx_mask(best_k)]>>
                \o pfx_loop(s + Pow2(best_k), h)
    ELSE <<>>

port_range_to_prefixes(l, h) == IF l > h THEN <<>> ELSE pfx_loop(l, h)

port_to_binary_with_mask(prefix, mask) ==
    [i \in 1..16 |->
        IF Bit(mask, 16 - i) = 1
        THEN (IF Bit(prefix, 16 - i) = 1 THEN "1" ELSE "0")
        ELSE "*"]

\* TCAM match of a 16-bit value against a (prefix, mask) pair
pfx_matches(v, p) == BitAnd(v, p.mask) = p.prefix

(***************************************************************************)
(* SRGE (Gray_code.cpp).                                                   *)
(***************************************************************************)
GRAY_BITS == 16

\* faulty variant: the value itself instead of its Gray code
binary_to_gray_plain(x) == x

binary_to_gray(x) == BitXor(x, x \div 2)

\* for (; g; g >>= 1) b ^= g
RECURSIVE gray_to_binary(_)
gray_to_binary(g) == IF g = 0 THEN 0 ELSE BitXor(g, gray_to_binary(g \div 2))

\* bitset<16>(g).to_string().substr(16 - bits)
gray_to_string(g, bits) ==
    [i \in 1..bits |-> IF Bit(g, bits - i) = 1 THEN "1" ELSE "0"]

RECURSIVE lca_scan(_, _, _, _)
lca_scan(sg, eg, bits, i) ==
    IF i < 0 THEN bits
    ELSE IF Bit(sg, i) # Bit(eg, i) THEN bits - 1 - i
    ELSE lca_scan(sg, eg, bits, i - 1)

compute_deepest_gray_lca(sg, eg, bits) == lca_scan(sg, eg, bits, bits - 1)

\* one iteration of "for (uint16_t b = bs; b <= be; ++b)": the accumulators
\* after the body has run for counter value x
gray_accumulate_step(acc, x) ==
    [ones |-> BitAnd(acc.ones, binary_to_gray(x)),
     zeros |-> BitOr(acc.zeros, binary_to_gray(x))]

\* the whole loop; the counter is a uint16_t, so the loop is left only when
\* the counter exceeds be
RECURSIVE gray_accumulate(_, _, _)
gray_accumulate(x, be, acc) ==
    IF x <= be
    THEN gray_accumulate(U16(x + 1), be, gray_accumulate_step(acc, x))
    ELSE acc

build_pattern_for_range(bs, be, bits) ==
    IF bs > be THEN <<>>
    ELSE LET acc == gray_accumulate(bs, be, [ones |-> 65535, zeros |-> 0])
         IN  [i \in 1..bits |->
                IF Bit(acc.ones, bits - i) = 1 THEN "1"
                ELSE IF Bit(acc.zeros, bits - i) = 0 THEN "0"
                ELSE "*"]

RECURSIVE popcount(_)
popcount(x) == IF x = 0 THEN 0 ELSE (x % 2) + popcount(x \div 2)

\* faulty variant: any power-of-two size passes, whatever bits vary
hypercube_test_size_only(size, acc) ==
    \E k \in 0..16 : size = Pow2(k)

hypercube_test(size, acc) ==
    size = Pow2(popcount(BitAnd(acc.zeros, 65535 - acc.ones)))

\* faulty variant: the test of an aligned binary block, a power-of-two size
\* starting at a multiple of the size
is_valid_gray_hypercube_aligned(bs, be, bits) ==
    IF bs > be THEN FALSE
    ELSE /\ \E k \in 0..16 : be - bs + 1 = Pow2(k)
         /\ bs % (be - bs + 1) = 0

is_valid_gray_hypercube(bs, be, bits) ==
    IF bs > be THEN FALSE
    ELSE hypercube_test(be - bs + 1,
                        gray_accumulate(bs, be, [ones |-> 65535, zeros |-> 0]))

RECURSIVE largest_pow2(_, _)
largest_pow2(try_size, max_size) ==
    IF try_size * 2 <= max_size THEN largest_pow2(try_size * 2, max_size)
    ELSE try_size

RECURSIVE greedy_try(_, _, _, _)
greedy_try(bs, be, bits, try_size) ==
    IF try_size >= 1
    THEN LET try_end == U16(bs + try_size - 1)
         IN  IF try_end <= be /\ is_valid_gray_hypercube(bs, try_end, bits)
             THEN try_end
             ELSE greedy_try(bs, be, bits, try_size \div 2)
    ELSE bs

greedy_max_hypercube(bs, be, bits) ==
    IF bs > be THEN bs
    ELSE greedy_try(bs, be, bits, largest_pow2(1, be - bs + 1))

\* the pivot search: the first b in [bs, be] whose Gray code differs from
\* G(bs) at the branch bit, 0xFFFF when there is none
RECURSIVE find_pivot(_, _, _, _)
find_pivot(x, be, flip_bit_pos, sg_bit) ==
    IF x <= be
    THEN IF Bit(binary_to_gray(x), flip_bit_pos) # sg_bit THEN x
         ELSE find_pivot(U16(x + 1), be, flip_bit_pos, sg_bit)
    ELSE 65535

\* pattern[idx] = '*' with idx counted from 0
SetStar(pattern, idx) == [pattern EXCEPT ![idx + 1] = "*"]

\* the second-level merge test: every position but sub_lca agrees
can_merge_patterns(l_pat, r_pat, sub_lca, bits) ==
    \A i \in 0..(bits - 1) : i = sub_lca \/ l_pat[i + 1] = r_pat[i + 1]

RECURSIVE srge_recursive_impl(_, _, _)
srge_recursive_impl(bs, be, bits) ==
    IF bs > be THEN <<>>
    ELSE IF bs = be THEN <<gray_to_string(binary_to_gray(bs), bits)>>
    ELSE IF is_valid_gray_hypercube(bs, be, bits)
         THEN <<build_pattern_for_range(bs, be, bits)>>
    ELSE
    LET sg == binary_to_gray(bs)
        eg == binary_to_gray(be)
        lca_depth == compute_deepest_gray_lca(sg, eg, bits)
        flip_bit_pos == bits - 1 - lca_depth
        sg_bit == Bit(sg, flip_bit_pos)
        pivot == find_pivot(bs, be, flip_bit_pos, sg_bit)
    IN
    IF pivot = 65535 THEN <<build_pattern_for_range(bs, be, bits)>>
    ELSE
    LET left_bs == bs
        left_be == U16(pivot - 1)
        right_bs == pivot
        right_be == be
        left_size == left_be - left_bs + 1
        right_size == right_be - right_bs + 1
    IN
    IF right_size <= left_size
    THEN \* greedy merge on the right side
        LET merge_end == greedy_max_hypercube(right_bs, right_be, bits)
            merge_size == merge_end - right_bs + 1
            pattern == SetStar(build_pattern_for_range(right_bs, merge_end, bits), lca_depth)
            left_remain_be == U16(left_be - merge_size)
            right_remain_bs == U16(merge_end + 1)
            has_left == left_remain_be >= left_bs
            has_right == right_remain_bs <= right_be
        IN
        IF has_left /\ has_right
        THEN LET r_merge_end == greedy_max_hypercube(right_remain_bs, right_be, bits)
                 r_merge_size == r_merge_end - right_remain_bs + 1
                 l_sym_bs == U16(left_remain_be - r_merge_size + 1)
                 r_pat == build_pattern_for_range(right_remain_bs, r_merge_end, bits)
                 l_pat == build_pattern_for_range(l_sym_bs, left_remain_be, bits)
                 sub_lca == compute_deepest_gray_lca(binary_to_gray(l_sym_bs),
                                                     binary_to_gray(right_remain_bs), bits)
             IN  IF /\ r_merge_size <= left_remain_be - left_bs + 1
                    /\ can_merge_patterns(l_pat, r_pat, sub_lca, bits)
                 THEN <<pattern, SetStar(l_pat, sub_lca)>>
                        \o (IF l_sym_bs > left_bs
                            THEN srge_recursive_impl(left_bs, U16(l_sym_bs - 1), bits)
                            ELSE <<>>)
                        \o (IF r_merge_end < right_be
                            THEN srge_recursive_impl(U16(r_merge_end + 1), right_be, bits)
                            ELSE <<>>)
                 ELSE <<pattern>>
                        \o srge_recursive_impl(left_bs, left_remain_be, bits)
                        \o srge_recursive_impl(right_remain_bs, right_be, bits)
        ELSE IF has_left
             THEN <<pattern>> \o srge_recursive_impl(left_bs, left_remain_be, bits)
        ELSE IF has_right
             THEN <<pattern>> \o srge_recursive_impl(right_remain_bs, right_be, bits)
        ELSE <<pattern>>
    ELSE \* greedy merge on the left side
        LET merge_end == greedy_max_hypercube(left_bs, left_be, bits)
            merge_size == merge_end - left_bs + 1
            pattern == SetStar(build_pattern_for_range(left_bs, merge_end, bits), lca_depth)
            left_remain_bs == U16(merge_end + 1)
            right_remain_bs == U16(right_bs + merge_size)
        IN  <<pattern>>
              \o (IF left_remain_bs <= left_be
                  THEN srge_recursive_impl(left_remain_bs, left_be, bits)
                  ELSE <<>>)
              \o (IF right_remain_bs <= right_be
                  THEN srge_recursive_impl(right_remain_bs, right_be, bits)
                  ELSE <<>>)

srge_recursive(sg, eg, bits) ==
    srge_recursive_impl(gray_to_binary(sg), gray_to_binary(eg), bits)

srge_encode(sb, eb, bits) ==
    IF sb > eb THEN <<>>
    ELSE IF sb = 0 /\ eb = Pow2(bits) - 1 THEN <<Repeat("*", bits)>>
    ELSE srge_recursive(binary_to_gray(sb), binary_to_gray(eb), bits)

\* the codeword an SRGE pattern is matched against: the Gray code of v
srge_codeword(v, bits) == gray_to_string(binary_to_gray(v), bits)

(***************************************************************************)
(* DIRPE (Chunk_code.cpp).  A DIRPEConfig is [W, total_bits] with W the    *)
(* chunk width.                                                            *)
(***************************************************************************)
num_chunks(config) == config.total_bits \div config.W
chunk_max(config) == Pow2(config.W) - 1

\* x << n and x >> n on non-negative ints
Shl(x, n) == x * Pow2(n)
Shr(x, n) == x \div Pow2(n)

\* faulty variant: the ONEs are appended before the ZEROs
dirpe_value_chunk_ones_first(x, W) ==
    Repeat("1", x) \o Repeat("0", Pow2(W) - x - 1)

dirpe_value_chunk(x, W) ==
    Repeat("0", Pow2(W) - x - 1) \o Repeat("1", x)

\* faulty variant: the STARs are appended after the ONEs
dirpe_range_chunk_stars_last(s, e, W) ==
    IF s > e THEN <<"!">>
    ELSE Repeat("0", Pow2(W) - e - 1) \o Repeat("1", s) \o Repeat("*", e - s)

\* assert(s <= e) aborts the call; the abort is the one-symbol result "!"
dirpe_range_chunk(s, e, W) ==
    IF s > e THEN <<"!">>
    ELSE Repeat("0", Pow2(W) - e - 1) \o Repeat("*", e - s) \o Repeat("1", s)

get_chunk(value, chunk_idx, config) ==
    BitAnd(Shr(value, (num_chunks(config) - 1 - chunk_idx) * config.W),
           Pow2(config.W) - 1)

RECURSIVE find_split_from(_, _, _, _)
find_split_from(s, e, config, i) ==
    IF i >= num_chunks(config) THEN -1
    ELSE IF get_chunk(s, i, config) # get_chunk(e, i, config) THEN i
    ELSE find_split_from(s, e, config, i + 1)

find_split_chunk_high(s, e, config) == find_split_from(s, e, config, 0)

RECURSIVE can_encode_from(_, _, _, _, _)
can_encode_from(s, e, config, i, found_diff) ==
    IF i >= num_chunks(config) THEN TRUE
    ELSE LET s_chunk == get_chunk(s, i, config)
             e_chunk == get_chunk(e, i, config)
         IN  IF s_chunk > e_chunk THEN FALSE
             ELSE IF found_diff
                  THEN IF s_chunk # 0 \/ e_chunk # chunk_max(config) THEN FALSE
                       ELSE can_encode_from(s, e, config, i + 1, TRUE)
                  ELSE can_encode_from(s, e, config, i + 1, s_chunk < e_chunk)

\* faulty variant: the chunks after the first differing one are not required to
\* span their whole range
can_directly_encode_loose(s, e, config) ==
    \A i \in 0..(num_chunks(config) - 1) :
        get_chunk(s, i, config) <= get_chunk(e, i, config)

can_directly_encode(s, e, config) == can_encode_from(s, e, config, 0, FALSE)

\* faulty variant: the subranges of the chunk values strictly between the two
\* ends are left out
split_range_without_middle(s, e, k, config) ==
    LET rb0 == (num_chunks(config) - k - 1) * config.W
        remaining_bits == IF rb0 < 0 THEN 0 ELSE rb0
        remaining_mask == IF remaining_bits > 0 THEN U16(Pow2(remaining_bits) - 1) ELSE 0
        s_chunk_k == get_chunk(s, k, config)
        e_chunk_k == get_chunk(e, k, config)
        prefix_bits == k * config.W
        prefix_shift == U16(config.total_bits - prefix_bits)
        prefix_from_s == IF prefix_bits > 0 THEN Shr(s, prefix_shift) ELSE 0
        left_prefix == U16(BitOr(Shl(prefix_from_s, prefix_shift), Shl(s_chunk_k, remaining_bits)))
        left_end == BitOr(left_prefix, remaining_mask)
        right_start == U16(BitOr(Shl(prefix_from_s, prefix_shift), Shl(e_chunk_k, remaining_bits)))
    IN  (IF s <= left_end /\ left_end <= e THEN << <<s, left_end>> >> ELSE <<>>)
        \o (IF right_start <= e /\ right_start > left_end THEN << <<right_start, e>> >> ELSE <<>>)

split_range_by_chunk(s, e, k, config) ==
    LET rb0 == (num_chunks(config) - k - 1) * config.W
        remaining_bits == IF rb0 < 0 THEN 0 ELSE rb0
        remaining_mask == IF remaining_bits > 0 THEN U16(Pow2(remaining_bits) - 1) ELSE 0
        s_chunk_k == get_chunk(s, k, config)
        e_chunk_k == get_chunk(e, k, config)
        prefix_bits == k * config.W
        prefix_shift == U16(config.total_bits - prefix_bits)
        prefix_from_s == IF prefix_bits > 0 THEN Shr(s, prefix_shift) ELSE 0
        left_prefix == U16(BitOr(Shl(prefix_from_s, prefix_shift), Shl(s_chunk_k, remaining_bits)))
        left_end == BitOr(left_prefix, remaining_mask)
        mid(cv) == LET mid_base == U16(BitOr(Shl(prefix_from_s, prefix_shift), Shl(cv, remaining_bits)))
                   IN  <<mid_base, BitOr(mid_base, remaining_mask)>>
        right_start == U16(BitOr(Shl(prefix_from_s, prefix_shift), Shl(e_chunk_k, remaining_bits)))
    IN  (IF s <= left_end /\ left_end <= e THEN << <<s, left_end>> >> ELSE <<>>)
        \o [j \in 1..(e_chunk_k - s_chunk_k - 1) |-> mid(s_chunk_k + j)]
        \o (IF right_start <= e /\ right_start > left_end THEN << <<right_start, e>> >> ELSE <<>>)

RECURSIVE chunk_aligned_decomposition(_, _, _)
chunk_aligned_decomposition(s, e, config) ==
    IF s > e THEN <<>>
    ELSE IF can_directly_encode(s, e, config) THEN << <<s, e>> >>
    ELSE LET split_chunk == find_split_chunk_high(s, e, config)
         IN  IF split_chunk = -1 THEN << <<s, e>> >>
             ELSE LET subranges == split_range_by_chunk(s, e, split_chunk, config)
                  IN  Concat([j \in 1..Len(subranges) |->
                        chunk_aligned_decomposition(subranges[j][1], subranges[j][2], config)])

dirpe_encode_value(v, config) ==
    Concat([j \in 1..num_chunks(config) |->
        dirpe_value_chunk(get_chunk(v, j - 1, config), config.W)])

dirpe_encode_subrange(s, e, config) ==
    Concat([j \in 1..num_chunks(config) |->
        dirpe_range_chunk(get_chunk(s, j - 1, config), get_chunk(e, j - 1, config), config.W)])

dirpe_encode_range(s, e, config) ==
    LET subranges == chunk_aligned_decomposition(s, e, config)
    IN  [subranges |-> subranges,
         encodings |-> [j \in 1..Len(subranges) |->
                          dirpe_encode_subrange(subranges[j][1], subranges[j][2], config)]]

(***************************************************************************)
(* CGFE (CGFE_code.cpp).  A CGFEConfig is [W, c] with W the total width    *)
(* and c the chunk parameter.                                              *)
(***************************************************************************)
block_size(config) == Pow2(config.W - config.c)
num_blocks(config) == Pow2(config.c)
tc_bits(config) == config.W - config.c
msc_bits(config) == config.c

cgfe_msc(x, config) == x \div block_size(config)
cgfe_tc(x, config) == x % block_size(config)
block_start(msc, config) == U16(msc * block_size(config))
block_end(msc, config) == U16((msc + 1) * block_size(config) - 1)

encode_single_chunk(x, chunk_bits, reflected) ==
    LET max_val == Pow2(chunk_bits)
        xx == IF reflected THEN max_val - 1 - x ELSE x
    IN  Repeat("0", max_val - xx - 1) \o Repeat("1", xx)

\* faulty variant: the reflected flag is ignored
encode_chunk_range_unreflected(s, e, chunk_bits, reflected) ==
    IF s > e THEN <<"!">>
    ELSE LET max_val == Pow2(chunk_bits)
         IN  Repeat("0", max_val - e - 1) \o Repeat("*", e - s) \o Repeat("1", s)

\* assert(s <= e) aborts the call; the abort is the one-symbol result "!"
encode_chunk_range(s, e, chunk_bits, reflected) ==
    IF s > e THEN <<"!">>
    ELSE LET max_val == Pow2(chunk_bits)
             ss == IF reflected THEN max_val - 1 - e ELSE s
             ee == IF reflected THEN max_val - 1 - s ELSE e
         IN  Repeat("0", max_val - ee - 1) \o Repeat("*", ee - ss) \o Repeat("1", ss)

num_tc_chunks(config) == tc_bits(config) \div config.c

\* chunk i (0 = highest) of a tail value
tc_chunk(tc, i, config) ==
    BitAnd(Shr(tc, (num_tc_chunks(config) - 1 - i) * config.c), Pow2(config.c) - 1)

\* faulty variant: every chunk is encoded unreflected, the running parity
\* is never applied
encode_tc_point_plain(tc, config) ==
    IF num_tc_chunks(config) = 0
    THEN encode_single_chunk(tc, tc_bits(config), FALSE)
    ELSE Concat([i \in 1..num_tc_chunks(config) |->
                    encode_single_chunk(tc_chunk(tc, i - 1, config), config.c, FALSE)])

\* the loop of encode_tc_point from chunk i on, with the running parity
RECURSIVE encode_tc_point_from(_, _, _, _)
encode_tc_point_from(tc, config, i, parity) ==
    IF i >= num_tc_chunks(config) THEN <<>>
    ELSE LET orig_chunk_val == tc_chunk(tc, i, config)
             enc_chunk_val == IF parity = 1
                              THEN (Pow2(config.c) - 1) - orig_chunk_val
                              ELSE orig_chunk_val
         IN  encode_single_chunk(enc_chunk_val, config.c, FALSE)
               \o encode_tc_point_from(tc, config, i + 1, (parity + (enc_chunk_val % 2)) % 2)

encode_tc_point(tc, config) ==
    IF num_tc_chunks(config) = 0
    THEN encode_single_chunk(tc, tc_bits(config), FALSE)
    ELSE encode_tc_point_from(tc, config, 0, 0)

RECURSIVE tc_can_encode_from(_, _, _, _, _)
tc_can_encode_from(tc_lo, tc_hi, config, i, found_diff) ==
    IF i >= num_tc_chunks(config) THEN TRUE
    ELSE LET s_chunk == tc_chunk(tc_lo, i, config)
             e_chunk == tc_chunk(tc_hi, i, config)
         IN  IF s_chunk > e_chunk THEN FALSE
             ELSE IF found_diff
                  THEN IF s_chunk # 0 \/ e_chunk # Pow2(config.c) - 1 THEN FALSE
                       ELSE tc_can_encode_from(tc_lo, tc_hi, config, i + 1, TRUE)
                  ELSE tc_can_encode_from(tc_lo, tc_hi, config, i + 1, s_chunk < e_chunk)

tc_can_directly_encode(tc_lo, tc_hi, config) ==
    IF num_tc_chunks(config) = 0 THEN tc_lo <= tc_hi
    ELSE tc_can_encode_from(tc_lo, tc_hi, config, 0, FALSE)

RECURSIVE tc_find_split_from(_, _, _, _)
tc_find_split_from(tc_lo, tc_hi, config, i) ==
    IF i >= num_tc_chunks(config) THEN -1
    ELSE IF tc_chunk(tc_lo, i, config) # tc_chunk(tc_hi, i, config) THEN i
    ELSE tc_find_split_from(tc_lo, tc_hi, config, i + 1)

tc_find_split_chunk(tc_lo, tc_hi, config) == tc_find_split_from(tc_lo, tc_hi, config, 0)

\* faulty variant: the parity follows the low bit of the original chunk value
tc_next_parity_original(parity, s_chunk, e_chunk, config) ==
    (parity + (s_chunk % 2)) % 2

\* the parity handed to the next chunk: the low bit of the encoded start value
tc_next_parity(parity, s_chunk, e_chunk, config) ==
    LET enc_s_chunk == IF parity = 1 THEN (Pow2(config.c) - 1) - e_chunk ELSE s_chunk
    IN  (parity + (enc_s_chunk % 2)) % 2

RECURSIVE tc_encode_direct_from(_, _, _, _, _)
tc_encode_direct_from(tc_lo, tc_hi, config, i, parity) ==
    IF i >= num_tc_chunks(config) THEN <<>>
    ELSE LET s_chunk == tc_chunk(tc_lo, i, config)
             e_chunk == tc_chunk(tc_hi, i, config)
         IN  encode_chunk_range(s_chunk, e_chunk, config.c, parity = 1)
               \o tc_encode_direct_from(tc_lo, tc_hi, config, i + 1,
                                        tc_next_parity(parity, s_chunk, e_chunk, config))

tc_encode_direct(tc_lo, tc_hi, config, msc_parity) ==
    IF num_tc_chunks(config) = 0
    THEN encode_chunk_range(tc_lo, tc_hi, tc_bits(config), msc_parity)
    ELSE tc_encode_direct_from(tc_lo, tc_hi, config, 0, IF msc_parity THEN 1 ELSE 0)

RECURSIVE encode_tc_range(_, _, _, _, _)
RECURSIVE tc_decompose_and_encode(_, _, _, _, _)

encode_tc_range(tc_lo0, tc_hi, config, skip_prefix_len, msc_parity) ==
    IF tc_lo0 > tc_hi THEN <<>>
    ELSE LET tc_lo == IF skip_prefix_len > 0 THEN Max(tc_lo0, skip_prefix_len) ELSE tc_lo0
         IN  IF tc_lo > tc_hi THEN <<>>
             ELSE IF tc_can_directly_encode(tc_lo, tc_hi, config)
                  THEN <<tc_encode_direct(tc_lo, tc_hi, config, msc_parity)>>
                  ELSE tc_decompose_and_encode(tc_lo, tc_hi, config, skip_prefix_len, msc_parity)

tc_decompose_and_encode(tc_lo, tc_hi, config, skip_prefix_len, msc_parity) ==
    LET k == tc_find_split_chunk(tc_lo, tc_hi, config)
    IN
    IF k = -1 THEN <<tc_encode_direct(tc_lo, tc_hi, config, msc_parity)>>
    ELSE
    LET max_chunk_val == Pow2(config.c) - 1
        remaining_bits == (num_tc_chunks(config) - k - 1) * config.c
        remaining_mask == IF remaining_bits > 0 THEN Pow2(remaining_bits) - 1 ELSE 0
        s_chunk_k == BitAnd(Shr(tc_lo, remaining_bits), max_chunk_val)
        e_chunk_k == BitAnd(Shr(tc_hi, remaining_bits), max_chunk_val)
        prefix_bits == k * config.c
        prefix_shift == tc_bits(config) - prefix_bits
        prefix == IF prefix_bits > 0 THEN Shr(tc_lo, prefix_shift) ELSE 0
        left_prefix == BitOr(Shl(prefix, prefix_shift), Shl(s_chunk_k, remaining_bits))
        left_end == BitOr(left_prefix, remaining_mask)
        mid_base(cv) == BitOr(Shl(prefix, prefix_shift), Shl(cv, remaining_bits))
        right_base == BitOr(Shl(prefix, prefix_shift), Shl(e_chunk_k, remaining_bits))
    IN  (IF tc_lo <= left_end
         THEN encode_tc_range(tc_lo, left_end, config, 0, msc_parity)
         ELSE <<>>)
        \o Concat([j \in 1..(e_chunk_k - s_chunk_k - 1) |->
                encode_tc_range(mid_base(s_chunk_k + j),
                                BitOr(mid_base(s_chunk_k + j), remaining_mask),
                                config, 0, msc_parity)])
        \o (IF right_base <= tc_hi /\ right_base > left_end
            THEN encode_tc_range(right_base, tc_hi, config, 0, msc_parity)
            ELSE <<>>)

encode_msc_range(msc_lo, msc_hi, config) ==
    encode_chunk_range(msc_lo, msc_hi, msc_bits(config), FALSE)

\* one CGFEEntry per tail pattern, all with the same MSC range and origin
cgfe_entries(tc_patterns, msc_lo, msc_hi, orig_lo, orig_hi) ==
    [j \in 1..Len(tc_patterns) |->
        [msc_lo |-> msc_lo, msc_hi |-> msc_hi, tc_pattern |-> tc_patterns[j],
         orig_lo |-> orig_lo, orig_hi |-> orig_hi]]

\* the entries of one middle block m when the block distance is odd
cgfe_middle_block(m, r1_parity, r1_extend_lo, common_hi, config) ==
    LET bs == block_size(config)
        m_parity == (m % 2 = 1)
        covered_lo == IF m_parity = r1_parity THEN r1_extend_lo ELSE 0
        covered_hi == IF m_parity = r1_parity THEN bs - 1 ELSE common_hi
    IN  (IF covered_lo > 0
         THEN cgfe_entries(encode_tc_range(0, covered_lo - 1, config, 0, m_parity), m, m,
                           block_start(m, config), U16(block_start(m, config) + covered_lo - 1))
         ELSE <<>>)
        \o (IF covered_hi < bs - 1
            THEN cgfe_entries(encode_tc_range(covered_hi + 1, bs - 1, config, 0, m_parity), m, m,
                              U16(block_start(m, config) + covered_hi + 1), block_end(m, config))
            ELSE <<>>)

\* faulty variant: the whole head slice is extended over the MSC range
\* [msc_s, msc_e], without splitting off the part that has no mirror image
cgfe_delta_odd_unsplit(s, e, config) ==
    LET msc_s == cgfe_msc(s, config)
        msc_e == cgfe_msc(e, config)
        bs == block_size(config)
    IN  cgfe_entries(encode_tc_range(cgfe_tc(s, config), bs - 1, config, 0, msc_s % 2 = 1),
                     msc_s, msc_e, s, e)
        \o cgfe_entries(encode_tc_range(0, cgfe_tc(e, config), config, 0, msc_e % 2 = 1),
                        msc_e, msc_e, block_start(msc_e, config), e)

\* faulty variant: no reflection, every block of the range gets entries of
\* its own
cgfe_delta_odd_two_sided(s, e, config) ==
    LET msc_s == cgfe_msc(s, config)
        msc_e == cgfe_msc(e, config)
        bs == block_size(config)
    IN  cgfe_entries(encode_tc_range(cgfe_tc(s, config), bs - 1, config, 0, msc_s % 2 = 1),
                     msc_s, msc_s, s, block_end(msc_s, config))
        \o Concat([j \in 1..(msc_e - msc_s - 1) |->
                cgfe_entries(encode_tc_range(0, bs - 1, config, 0, (msc_s + j) % 2 = 1),
                             msc_s + j, msc_s + j,
                             block_start(msc_s + j, config), block_end(msc_s + j, config))])
        \o cgfe_entries(encode_tc_range(0, cgfe_tc(e, config), config, 0, msc_e % 2 = 1),
                        msc_e, msc_e, block_start(msc_e, config), e)

\* the branch for an odd block distance
cgfe_delta_odd(s, e, config) ==
    LET msc_s == cgfe_msc(s, config)
        msc_e == cgfe_msc(e, config)
        tc_s == cgfe_tc(s, config)
        tc_e == cgfe_tc(e, config)
        bs == block_size(config)
        r1_parity == (msc_s % 2 = 1)
        r3_parity == (msc_e % 2 = 1)
        r1_sym_hi == bs - 1 - tc_s
        common_hi == Min(r1_sym_hi, tc_e)
        r1_extend_lo == bs - 1 - common_hi
        r1_alone_lo == tc_s
        r1_alone_hi == r1_extend_lo - 1
    IN  (IF r1_alone_lo <= r1_alone_hi
         THEN cgfe_entries(encode_tc_range(r1_alone_lo, r1_alone_hi, config, 0, r1_parity),
                           msc_s, msc_s,
                           U16(block_start(msc_s, config) + r1_alone_lo),
                           U16(block_start(msc_s, config) + r1_alone_hi))
         ELSE <<>>)
        \o cgfe_entries(encode_tc_range(r1_extend_lo, bs - 1, config, 0, r1_parity),
                        msc_s, msc_e, s, e)
        \o (IF tc_e > r1_sym_hi
            THEN cgfe_entries(encode_tc_range(r1_sym_hi + 1, tc_e, config, 0, r3_parity),
                              msc_e, msc_e,
                              U16(block_start(msc_e, config) + r1_sym_hi + 1),
                              U16(block_start(msc_e, config) + tc_e))
            ELSE <<>>)
        \o Concat([j \in 1..(msc_e - msc_s - 1) |->
                cgfe_middle_block(msc_s + j, r1_parity, r1_extend_lo, common_hi, config)])

\* the branch for an even block distance
cgfe_delta_even(s, e, config) ==
    LET msc_s == cgfe_msc(s, config)
        msc_e == cgfe_msc(e, config)
        tc_s == cgfe_tc(s, config)
        tc_e == cgfe_tc(e, config)
        bs == block_size(config)
        r1_parity == (msc_s % 2 = 1)
        r3_parity == (msc_e % 2 = 1)
    IN  cgfe_entries(encode_tc_range(tc_s, bs - 1, config, 0, r1_parity),
                     msc_s, msc_e - 1, s, block_end(msc_e - 1, config))
        \o cgfe_entries(encode_tc_range(0, tc_e, config, 0, r3_parity),
                        msc_s + 1, msc_e, block_start(msc_s + 1, config), e)

cgfe_encode_range(s, e, config, skip_prefix_len) ==
    IF s > e THEN <<>>
    ELSE IF skip_prefix_len > e THEN <<>>
    ELSE LET msc_s == cgfe_msc(s, config)
             msc_e == cgfe_msc(e, config)
         IN  IF msc_s = msc_e
             THEN cgfe_entries(encode_tc_range(cgfe_tc(s, config), cgfe_tc(e, config),
                                               config, 0, msc_s % 2 = 1),
                               msc_s, msc_s, s, e)
             ELSE IF (msc_e - msc_s) % 2 = 1
                  THEN cgfe_delta_odd(s, e, config)
                  ELSE cgfe_delta_even(s, e, config)

\* faulty variant: the MSC part is left out of the string
cgfe_to_ternary_tail_only(entries, config) ==
    [j \in 1..Len(entries) |-> entries[j].tc_pattern]

cgfe_to_ternary(entries, config) ==
    [j \in 1..Len(entries) |->
        encode_msc_range(entries[j].msc_lo, entries[j].msc_hi, config)
            \o entries[j].tc_pattern]

\* the codeword a CGFE pattern is matched against: the single pattern of [v, v]
cgfe_codeword(v, config) ==
    cgfe_to_ternary(cgfe_encode_range(v, v, config, 0), config)[1]

(***************************************************************************)
(* Rule product: each driver encodes the two port ranges of every rule and *)
(* emits one TCAM entry per (source pattern, destination pattern) pair.    *)
(***************************************************************************)
\* faulty variant: a rule without destination patterns still yields one entry per
\* source pattern, with an empty destination
tcam_product_padded(src_patterns, dst_patterns, priority, action) ==
    IF dst_patterns = <<>>
    THEN [i \in 1..Len(src_patterns) |->
            [src_pattern |-> src_patterns[i], dst_pattern |-> <<>>,
             priority |-> priority, action |-> action]]
    ELSE Concat([i \in 1..Len(src_patterns) |->
            [j \in 1..Len(dst_patterns) |->
                [src_pattern |-> src_patterns[i], dst_pattern |-> dst_patterns[j],
                 priority |-> priority, action |-> action]]])

\* the two nested loops of the generators: src outer, dst inner
tcam_product(src_patterns, dst_patterns, priority, action) ==
    Concat([i \in 1..Len(src_patterns) |->
        [j \in 1..Len(dst_patterns) |->
            [src_pattern |-> src_patterns[i], dst_pattern |-> dst_patterns[j],
             priority |-> priority, action |-> action]]])

SRGE(table) ==
    [k \in 1..Len(table) |->
        [src_port_lo |-> table[k].src_port_lo, src_port_hi |-> table[k].src_port_hi,
         dst_port_lo |-> table[k].dst_port_lo, dst_port_hi |-> table[k].dst_port_hi,
         src |-> srge_encode(table[k].src_port_lo, table[k].src_port_hi, GRAY_BITS),
         dst |-> srge_encode(table[k].dst_port_lo, table[k].dst_port_hi, GRAY_BITS),
         priority |-> table[k].priority, action |-> table[k].action]]

generate_tcam_entries(gray_ports) ==
    Concat([k \in 1..Len(gray_ports) |->
        tcam_product(gray_ports[k].src, gray_ports[k].dst,
                     gray_ports[k].priority, gray_ports[k].action)])

DIRPE(table, chunk_width) ==
    LET config == [W |-> chunk_width, total_bits |-> 16]
    IN  [k \in 1..Len(table) |->
            [src_port_lo |-> table[k].src_port_lo, src_port_hi |-> table[k].src_port_hi,
             dst_port_lo |-> table[k].dst_port_lo, dst_port_hi |-> table[k].dst_port_hi,
             priority |-> table[k].priority, action |-> table[k].action,
             src |-> dirpe_encode_range(table[k].src_port_lo, table[k].src_port_hi,
                                        config).encodings,
             dst |-> dirpe_encode_range(table[k].dst_port_lo, table[k].dst_port_hi,
                                        config).encodings]]

generate_dirpe_tcam_entries(dirpe_ports) ==
    Concat([k \in 1..Len(dirpe_ports) |->
        tcam_product(dirpe_ports[k].src, dirpe_ports[k].dst,
                     dirpe_ports[k].priority, dirpe_ports[k].action)])

CGFE_encode_ports(table, config) ==
    [k \in 1..Len(table) |->
        [src_port_lo |-> table[k].src_port_lo, src_port_hi |-> table[k].src_port_hi,
         dst_port_lo |-> table[k].dst_port_lo, dst_port_hi |-> table[k].dst_port_hi,
         priority |-> table[k].priority, action |-> table[k].action,
         src |-> cgfe_encode_range(table[k].src_port_lo, table[k].src_port_hi, config, 0),
         dst |-> cgfe_encode_range(table[k].dst_port_lo, table[k].dst_port_hi, config, 0)]]

\* the generator renders the entries under the configuration {16, 2}
generate_cgfe_tcam_entries(cgfe_ports) ==
    Concat([k \in 1..Len(cgfe_ports) |->
        tcam_product(cgfe_to_ternary(cgfe_ports[k].src, [W |-> 16, c |-> 2]),
                     cgfe_to_ternary(cgfe_ports[k].dst, [W |-> 16, c |-> 2]),
                     cgfe_ports[k].priority, cgfe_ports[k].action)])

\* the entries of rules[rule_idx]; a TCAM_Entry has an action and a rule_id
\* (the 0-based position of the rule) and no priority member
pfx_product(src_prefixes, dst_prefixes, rule, rule_idx) ==
    Concat([i \in 1..Len(src_prefixes) |->
        [j \in 1..Len(dst_prefixes) |->
            [Src_Port_prefix |-> src_prefixes[i].prefix,
             Src_Port_mask |-> src_prefixes[i].mask,
             Dst_Port_prefix |-> dst_prefixes[j].prefix,
             Dst_Port_mask |-> dst_prefixes[j].mask,
             action |-> rule.action, rule_id |-> rule_idx]]])

TCAM_Port_Expansion(rules) ==
    Concat([k \in 1..Len(rules) |->
        pfx_product(port_range_to_prefixes(rules[k].src_port_lo, rules[k].src_port_hi),
                    port_range_to_prefixes(rules[k].dst_port_lo, rules[k].dst_port_hi),
                    rules[k], k - 1)])

(***************************************************************************)
(* Specification.  A run is either one encoder call (the inputs are drawn  *)
(* in Init and the call produces the result) or one pass of a driver over  *)
(* a rule table (encode every rule, then emit the TCAM entries).           *)
(***************************************************************************)
\* rule tables hold 1..MaxRules rules
MaxRules == 2

PortSamples == (0..MaxPort) \cup {65535 - i : i \in 0..MaxPort}

Widths == 2..MaxBits

\* every chunk width that divides a total width up to MaxBits, and the
\* three-chunk configuration of the DIRPE demo
DIRPEConfigs ==
    { k \in [W : 1..MaxBits, total_bits : Widths] : k.total_bits % k.W = 0 }
    \cup { [W |-> 2, total_bits |-> 6] }

\* every chunk parameter that divides a total width up to MaxBits, and the
\* configuration of the CGFE demo
CGFEConfigs ==
    { k \in [W : Widths, c : 1..MaxBits] : k.W % k.c = 0 }
    \cup { [W |-> 6, c |-> 2] }

Inputs ==
    { [alg |-> "PFX", cfg |-> [bits |-> 16], lo |-> l, hi |-> h] :
        l \in PortSamples, h \in PortSamples }
    \cup UNION { { [alg |-> "SRGE", cfg |-> [bits |-> w], lo |-> l, hi |-> h] :
                    l \in 0..(Pow2(w) - 1), h \in 0..(Pow2(w) - 1) } : w \in Widths }
    \cup UNION { { [alg |-> "DIRPE", cfg |-> k, lo |-> l, hi |-> h] :
                    l \in 0..(Pow2(k.total_bits) - 1), h \in 0..(Pow2(k.total_bits) - 1) } :
                  k \in DIRPEConfigs }
    \cup UNION { { [alg |-> "CGFE", cfg |-> k, lo |-> l, hi |-> h] :
                    l \in 0..(Pow2(k.W) - 1), h \in 0..(Pow2(k.W) - 1) } :
                  k \in CGFEConfigs }

\* port ranges of the rules: an empty range (lo > hi), a single port and a
\* range every encoder splits into several patterns
RuleRanges == { <<1, 0>>, <<3, 3>>, <<1, 6>> }

\* priority and action string of a rule
RuleLabels ==
    { [priority |-> 1, action |-> "0x0000/0x0200"],
      [priority |-> 2, action |-> "0x1000/0x1000"] }

Rules ==
    { [src_port_lo |-> s[1], src_port_hi |-> s[2],
       dst_port_lo |-> d[1], dst_port_hi |-> d[2],
       priority |-> l.priority, action |-> l.action] :
        s \in RuleRanges, d \in RuleRanges, l \in RuleLabels }

Tables == UNION { [1..n -> Rules] : n \in 1..MaxRules }

\* the configuration each driver encodes the ports with
DriverConfigs ==
    { [alg |-> "PFX", cfg |-> [bits |-> 16]],
      [alg |-> "SRGE", cfg |-> [bits |-> GRAY_BITS]],
      [alg |-> "DIRPE", cfg |-> [W |-> 2, total_bits |-> 16]],
      [alg |-> "CGFE", cfg |-> [W |-> 16, c |-> 2]] }

NoTable == <<>>

InitCall ==
    /\ pc = "call"
    /\ \E inp \in Inputs :
        /\ alg = inp.alg
        /\ cfg = inp.cfg
        /\ lo = inp.lo
        /\ hi = inp.hi
    /\ port_table = NoTable

InitTable ==
    /\ pc = "load"
    /\ \E d \in DriverConfigs :
        /\ alg = d.alg
        /\ cfg = d.cfg
    /\ lo = 0
    /\ hi = 0
    /\ port_table \in Tables

Init ==
    /\ InitCall \/ InitTable
    /\ result = <<>>
    /\ coded = <<>>
    /\ tcam = <<>>
    /\ b = 0
    /\ all_ones = 0
    /\ all_zeros = 0
    /\ unwritable = {}
    /\ NoOutput

CallPFX ==
    /\ pc = "call"
    /\ alg = "PFX"
    /\ result' = port_range_to_prefixes(lo, hi)
    /\ pc' = "done"
    /\ UNCHANGED <<alg, cfg, lo, hi, port_table, coded, tcam, b, all_ones, all_zeros>>
    /\ UNCHANGED io

CallSRGE ==
    /\ pc = "call"
    /\ alg = "SRGE"
    /\ result' = srge_encode(lo, hi, cfg.bits)
    /\ pc' = "done"
    /\ UNCHANGED <<alg, cfg, lo, hi, port_table, coded, tcam, b, all_ones, all_zeros>>
    /\ UNCHANGED io

CallDIRPE ==
    /\ pc = "call"
    /\ alg = "DIRPE"
    /\ result' = dirpe_encode_range(lo, hi, cfg)
    /\ pc' = "done"
    /\ UNCHANGED <<alg, cfg, lo, hi, port_table, coded, tcam, b, all_ones, all_zeros>>
    /\ UNCHANGED io

CallCGFE ==
    /\ pc = "call"
    /\ alg = "CGFE"
    /\ result' = cgfe_encode_range(lo, hi, cfg, 0)
    /\ pc' = "done"
    /\ UNCHANGED <<alg, cfg, lo, hi, port_table, coded, tcam, b, all_ones, all_zeros>>
    /\ UNCHANGED io

ExpandPFX ==
    /\ pc = "load"
    /\ alg = "PFX"
    /\ tcam' = TCAM_Port_Expansion(port_table)
    /\ pc' = "emitted"
    /\ UNCHANGED <<alg, cfg, lo, hi, result, port_table, coded, b, all_ones, all_zeros>>
    /\ UNCHANGED io

EncodeSRGE ==
    /\ pc = "load"
    /\ alg = "SRGE"
    /\ coded' = SRGE(port_table)
    /\ pc' = "coded"
    /\ UNCHANGED <<alg, cfg, lo, hi, result, port_table, tcam, b, all_ones, all_zeros>>
    /\ UNCHANGED io

EmitSRGE ==
    /\ pc = "coded"
    /\ alg = "SRGE"
    /\ tcam' = generate_tcam_entries(coded)
    /\ pc' = "emitted"
    /\ UNCHANGED <<alg, cfg, lo, hi, result, port_table, coded, b, all_ones, all_zeros>>
    /\ UNCHANGED io

EncodeDIRPE ==
    /\ pc = "load"
    /\ alg = "DIRPE"
    /\ coded' = DIRPE(port_table, cfg.W)
    /\ pc' = "coded"
    /\ UNCHANGED <<alg, cfg, lo, hi, result, port_table, tcam, b, all_ones, all_zeros>>
    /\ UNCHANGED io

EmitDIRPE ==
    /\ pc = "coded"
    /\ alg = "DIRPE"
    /\ tcam' = generate_dirpe_tcam_entries(coded)
    /\ pc' = "emitted"
    /\ UNCHANGED <<alg, cfg, lo, hi, result, port_table, coded, b, all_ones, all_zeros>>
    /\ UNCHANGED io

EncodeCGFE ==
    /\ pc = "load"
    /\ alg = "CGFE"
    /\ coded' = CGFE_encode_ports(port_table, cfg)
    /\ pc' = "coded"
    /\ UNCHANGED <<alg, cfg, lo, hi, result, port_table, tcam, b, all_ones, all_zeros>>
    /\ UNCHANGED io

EmitCGFE ==
    /\ pc = "coded"
    /\ alg = "CGFE"
    /\ tcam' = generate_cgfe_tcam_entries(coded)
    /\ pc' = "emitted"
    /\ UNCHANGED <<alg, cfg, lo, hi, result, port_table, coded, b, all_ones, all_zeros>>
    /\ UNCHANGED io

Next ==
    \/ CallCGFE
    \/ CallPFX
    \/ CallSRGE
    \/ CallDIRPE
    \/ ExpandPFX
    \/ EncodeSRGE
    \/ EmitSRGE
    \/ EncodeDIRPE
    \/ EmitDIRPE
    \/ EncodeCGFE
    \/ EmitCGFE

Spec == Init /\ [][Next]_vars

(***************************************************************************)
(* Properties of one encoder call.                                         *)
(***************************************************************************)
\* the ternary strings of a result, as the TCAM holds them
Strings(a, k, r) ==
    CASE a = "PFX" ->
            [j \in 1..Len(r) |-> port_to_binary_with_mask(r[j].prefix, r[j].mask)]
      [] a = "SRGE" -> r
      [] a = "DIRPE" -> r.encodings
      [] a = "CGFE" -> cgfe_to_ternary(r, k)

\* the number of values of the encoder's domain
DomainSize(a, k) ==
    CASE a = "PFX" -> 65536
      [] a = "SRGE" -> Pow2(k.bits)
      [] a = "DIRPE" -> Pow2(k.total_bits)
      [] a = "CGFE" -> Pow2(k.W)

InRange(v) == lo <= v /\ v <= hi

\* C1: SRGE exact cover.  For W in {4, 8, 16} and 0 <= lo <= hi < 2^W, the
\* Gray code of a W-bit value v is matched by some pattern of
\* srge_encode(lo, hi, W) if and only if lo <= v <= hi.
SRGEExactCover ==
    (pc = "done" /\ alg = "SRGE" /\ cfg.bits \in {4, 8, 16} /\ lo <= hi) =>
        \A v \in 0..(Pow2(cfg.bits) - 1) :
            (\E j \in 1..Len(result) : Matches(result[j], srge_codeword(v, cfg.bits)))
                <=> InRange(v)

\* C2: CGFE exact cover.  For every (W, c) with W a multiple of c and
\* 0 <= lo <= hi < 2^W, the codeword of v (the single pattern of [v, v]) is
\* matched by some string of cgfe_to_ternary(cgfe_encode_range(lo, hi))
\* if and only if lo <= v <= hi.
CGFEExactCover ==
    (pc = "done" /\ alg = "CGFE" /\ cfg.W % cfg.c = 0 /\ lo <= hi) =>
        LET strings == cgfe_to_ternary(result, cfg)
        IN  \A v \in 0..(Pow2(cfg.W) - 1) :
                (\E j \in 1..Len(strings) : Matches(strings[j], cgfe_codeword(v, cfg)))
                    <=> InRange(v)

\* C3: DIRPE exact cover.  For every configuration with total_bits a
\* multiple of the chunk width and 0 <= s <= e < 2^total_bits,
\* dirpe_encode_value(v) is matched by some encoding of
\* dirpe_encode_range(s, e) if and only if s <= v <= e.
DIRPEExactCover ==
    (pc = "done" /\ alg = "DIRPE" /\ cfg.total_bits % cfg.W = 0 /\ lo <= hi) =>
        \A v \in 0..(Pow2(cfg.total_bits) - 1) :
            (\E j \in 1..Len(result.encodings) :
                Matches(result.encodings[j], dirpe_encode_value(v, cfg)))
                <=> InRange(v)

\* a range that DIRPE splits into three or more subranges, with values of
\* the domain below and above it
DIRPEExactCoverWitness ==
    /\ pc = "done"
    /\ alg = "DIRPE"
    /\ cfg = [W |-> 2, total_bits |-> 6]
    /\ 0 < lo
    /\ hi < 63
    /\ Len(result.encodings) >= 3

\* the last value of the block of a (prefix, mask) pair
pfx_block_end(p) == p.prefix + (65535 - p.mask)

\* the values a PFX result is probed with: both ends of every block and
\* their neighbours, the sampled ports and the powers of two with their
\* predecessors
PfxProbes(r) ==
    (PortSamples
        \cup { Pow2(k) - 1 : k \in 0..16 }
        \cup { Pow2(k) : k \in 0..15 }
        \cup UNION { { r[j].prefix - 1, r[j].prefix,
                       pfx_block_end(r[j]), pfx_block_end(r[j]) + 1 } :
                     j \in 1..Len(r) })
    \cap (0..65535)

\* C4: PFX exact cover.  For 0 <= lo <= hi <= 65535, a 16-bit value v has
\* (v AND mask) = prefix for some pair of port_range_to_prefixes(lo, hi) if
\* and only if lo <= v <= hi.  Every pair is an aligned power-of-two block,
\* so the values at and next to the block ends decide every other value.
PFXExactCover ==
    (pc = "done" /\ alg = "PFX" /\ lo <= hi) =>
        /\ \A j \in 1..Len(result) :
            \E k \in 0..16 :
                /\ result[j].mask = 65536 - Pow2(k)
                /\ result[j].prefix % Pow2(k) = 0
        /\ \A v \in PfxProbes(result) :
            (\E j \in 1..Len(result) : pfx_matches(v, result[j])) <=> InRange(v)

\* a range in the middle of the domain that needs twenty or more blocks
PFXExactCoverWitness ==
    /\ pc = "done"
    /\ alg = "PFX"
    /\ 0 < lo
    /\ hi < 65535
    /\ Len(result) >= 20

\* C7: whole domain.  Encoding [0, 2^W - 1] returns exactly one pattern and
\* every symbol of it is '*'; for PFX the one pair has mask 0.
WholeDomainOneStar ==
    (pc = "done" /\ lo = 0 /\ hi = DomainSize(alg, cfg) - 1) =>
        LET strings == Strings(alg, cfg, result)
        IN  /\ Len(strings) = 1
            /\ AllStar(strings[1])
            /\ alg = "PFX" => result[1].mask = 0

\* the whole domain of the CGFE configuration (4, 2) has been encoded
WholeDomainWitness ==
    /\ pc = "done"
    /\ alg = "CGFE"
    /\ cfg = [W |-> 4, c |-> 2]
    /\ lo = 0
    /\ hi = 15
    /\ Len(result) = 1

\* the 16-bit binary numeral of v, most significant bit first
BinaryString(v) == [i \in 1..16 |-> IF Bit(v, 16 - i) = 1 THEN "1" ELSE "0"]

\* the reflected Gray code of v: bit i of G(v) is bit i of v xor bit i+1 of v
GrayString(v, bits) ==
    [i \in 1..bits |-> IF Bit(v, bits - i) # Bit(v, bits - i + 1) THEN "1" ELSE "0"]

\* the values a singleton is compared with: the whole domain, or the sampled
\* ports for the 16-bit domain of PFX
SingletonPeers ==
    IF alg = "PFX" THEN PortSamples ELSE 0..(DomainSize(alg, cfg) - 1)

\* the strings an encoder returns for the range [u, u]
SingletonOf(u) ==
    CASE alg = "PFX" -> Strings(alg, cfg, port_range_to_prefixes(u, u))
      [] alg = "SRGE" -> Strings(alg, cfg, srge_encode(u, u, cfg.bits))
      [] alg = "DIRPE" -> Strings(alg, cfg, dirpe_encode_range(u, u, cfg))
      [] alg = "CGFE" -> Strings(alg, cfg, cgfe_encode_range(u, u, cfg, 0))

\* C8: singleton.  Encoding [v, v] returns exactly one pattern, without any
\* '*', that identifies v alone: the 16-bit binary of v for PFX, the Gray
\* code G(v) for SRGE, dirpe_encode_value(v) for DIRPE, and for every
\* encoder a pattern different from that of [u, u] whenever u # v.
SingletonIdentifies ==
    (pc = "done" /\ lo = hi) =>
        LET strings == Strings(alg, cfg, result)
        IN  /\ Len(strings) = 1
            /\ ~HasStar(strings[1])
            /\ alg = "PFX" => strings[1] = BinaryString(lo)
            /\ alg = "SRGE" => strings[1] = GrayString(lo, cfg.bits)
            /\ alg = "DIRPE" => strings[1] = dirpe_encode_value(lo, cfg)
            /\ \A u \in SingletonPeers \ {lo} : SingletonOf(u) # strings

\* a single value of a block of odd MSC has been encoded by CGFE (6, 2)
SingletonWitness ==
    /\ pc = "done"
    /\ alg = "CGFE"
    /\ cfg = [W |-> 6, c |-> 2]
    /\ lo = hi
    /\ cgfe_msc(lo, cfg) % 2 = 1
    /\ Len(result) = 1

\* the pattern length of an encoder under a configuration
PatternLength(a, k) ==
    CASE a = "PFX" -> 16
      [] a = "SRGE" -> k.bits
      [] a = "DIRPE" -> (k.total_bits \div k.W) * (Pow2(k.W) - 1)
      [] a = "CGFE" -> (k.W \div k.c) * (Pow2(k.c) - 1)

\* C9: length uniformity.  Every pattern returned for any range has the
\* same length: 16 for PFX, bits for SRGE, (total_bits / W) * (2^W - 1) for
\* DIRPE and (W / c) * (2^c - 1) for CGFE.
UniformLength ==
    pc = "done" =>
        LET strings == Strings(alg, cfg, result)
        IN  \A j \in 1..Len(strings) : Len(strings[j]) = PatternLength(alg, cfg)

\* a CGFE range over several blocks that yields three or more strings
UniformLengthWitness ==
    /\ pc = "done"
    /\ alg = "CGFE"
    /\ cfg = [W |-> 6, c |-> 2]
    /\ cgfe_msc(lo, cfg) < cgfe_msc(hi, cfg)
    /\ Len(result) >= 3

(***************************************************************************)
(* Properties of one pass over a rule table.                               *)
(***************************************************************************)
\* the TCAM entries a driver emits for a table
Emitted(a, k, table) ==
    CASE a = "PFX" -> TCAM_Port_Expansion(table)
      [] a = "SRGE" -> generate_tcam_entries(SRGE(table))
      [] a = "DIRPE" -> generate_dirpe_tcam_entries(DIRPE(table, k.W))
      [] a = "CGFE" -> generate_cgfe_tcam_entries(CGFE_encode_ports(table, k))

\* the result of one encoder call under a driver's configuration
Encoded(a, k, l, h) ==
    CASE a = "PFX" -> port_range_to_prefixes(l, h)
      [] a = "SRGE" -> srge_encode(l, h, k.bits)
      [] a = "DIRPE" -> dirpe_encode_range(l, h, k)
      [] a = "CGFE" -> cgfe_encode_range(l, h, k, 0)

\* the source and the destination port range of a rule
RangesOf(r) == { <<r.src_port_lo, r.src_port_hi>>, <<r.dst_port_lo, r.dst_port_hi>> }

EmptyRule(r) == r.src_port_lo > r.src_port_hi \/ r.dst_port_lo > r.dst_port_hi

\* the table without its i-th rule
WithoutRule(table, i) ==
    [n \in 1..(Len(table) - 1) |-> IF n < i THEN table[n] ELSE table[n + 1]]

\* an entry of the table without its i-th rule, as the full table numbers it:
\* the rule_id of a PFX entry is the position of its rule
AsNumberedWith(e, i) ==
    IF "rule_id" \in DOMAIN e
    THEN [e EXCEPT !.rule_id = IF @ >= i - 1 THEN @ + 1 ELSE @]
    ELSE e

\* C10: empty versus non-empty.  Each encoder returns an empty sequence when
\* lo > hi and at least one pattern when lo <= hi; a rule whose source or
\* destination range has lo > hi produces no TCAM entry, and the entries of
\* all other rules are what they are without that rule.
EmptyIffInverted ==
    /\ pc = "done" =>
        LET strings == Strings(alg, cfg, result)
        IN  /\ lo > hi => strings = <<>>
            /\ lo <= hi => Len(strings) >= 1
    /\ pc = "emitted" =>
        \A i \in 1..Len(port_table) :
            /\ \A rg \in RangesOf(port_table[i]) :
                    (rg[1] > rg[2])
                        <=> (Strings(alg, cfg, Encoded(alg, cfg, rg[1], rg[2])) = <<>>)
            /\ EmptyRule(port_table[i]) =>
                LET rest == Emitted(alg, cfg, WithoutRule(port_table, i))
                IN  tcam = [n \in 1..Len(rest) |-> AsNumberedWith(rest[n], i)]

\* a table whose first rule has an empty source range and whose second rule
\* yields four entries
EmptyIffInvertedWitness ==
    /\ pc = "emitted"
    /\ alg = "SRGE"
    /\ Len(port_table) = 2
    /\ port_table[1].src_port_lo > port_table[1].src_port_hi
    /\ port_table[1].dst_port_lo < port_table[1].dst_port_hi
    /\ ~EmptyRule(port_table[2])
    /\ Len(tcam) = 4

\* the source and destination patterns of a rule as its entries hold them:
\* (prefix, mask) pairs for PFX, ternary strings for the other encoders
SidePatterns(a, k, l, h) ==
    IF a = "PFX" THEN Encoded(a, k, l, h) ELSE Strings(a, k, Encoded(a, k, l, h))

SrcPatterns(r) == SidePatterns(alg, cfg, r.src_port_lo, r.src_port_hi)
DstPatterns(r) == SidePatterns(alg, cfg, r.dst_port_lo, r.dst_port_hi)

\* the number of entries of the rules before the k-th
RECURSIVE EntriesBefore(_)
EntriesBefore(k) ==
    IF k <= 1 THEN 0
    ELSE EntriesBefore(k - 1)
            + Len(SrcPatterns(port_table[k - 1])) * Len(DstPatterns(port_table[k - 1]))

\* the source and the destination pattern an entry holds
EntrySrc(e) ==
    IF alg = "PFX" THEN [prefix |-> e.Src_Port_prefix, mask |-> e.Src_Port_mask]
    ELSE e.src_pattern

EntryDst(e) ==
    IF alg = "PFX" THEN [prefix |-> e.Dst_Port_prefix, mask |-> e.Dst_Port_mask]
    ELSE e.dst_pattern

\* a pattern of the running encoder matches the port v
PortMatches(pat, v) ==
    CASE alg = "PFX" -> pfx_matches(v, pat)
      [] alg = "SRGE" -> Matches(pat, srge_codeword(v, cfg.bits))
      [] alg = "DIRPE" -> Matches(pat, dirpe_encode_value(v, cfg))
      [] alg = "CGFE" -> Matches(pat, cgfe_codeword(v, cfg))

\* the ports the entries are matched against
ProbePorts == 0..7

\* C6: rule product.  For every rule and every encoder the entries of the
\* rule are exactly the pairs (src pattern i, dst pattern j), i outer and j
\* inner, |src| x |dst| of them, each carrying the rule's priority and action
\* unchanged, rules in input order; so the (src port, dst port) pairs the
\* rule's entries match are the product of the two match sets, and no entry
\* of a rule depends on another rule.
RuleProduct ==
    pc = "emitted" =>
        /\ Len(tcam) = EntriesBefore(Len(port_table) + 1)
        /\ \A k \in 1..Len(port_table) :
            LET rule == port_table[k]
                src == SrcPatterns(rule)
                dst == DstPatterns(rule)
                entry(i, j) == tcam[EntriesBefore(k) + (i - 1) * Len(dst) + j]
            IN  /\ \A i \in 1..Len(src) : \A j \in 1..Len(dst) :
                    /\ EntrySrc(entry(i, j)) = src[i]
                    /\ EntryDst(entry(i, j)) = dst[j]
                    /\ entry(i, j).action = rule.action
                    /\ "priority" \in DOMAIN entry(i, j)
                    /\ entry(i, j).priority = rule.priority
                /\ \A x \in ProbePorts : \A y \in ProbePorts :
                    (\E i \in 1..Len(src) : \E j \in 1..Len(dst) :
                        /\ PortMatches(EntrySrc(entry(i, j)), x)
                        /\ PortMatches(EntryDst(entry(i, j)), y))
                    <=> ((\E i \in 1..Len(src) : PortMatches(src[i], x))
                            /\ (\E j \in 1..Len(dst) : PortMatches(dst[j], y)))

(***************************************************************************)
(* Specification of one call srge_encode(lo, hi, GRAY_BITS), with the loop *)
(* of the first is_valid_gray_hypercube call taken one iteration at a      *)
(* time.  The call runs on its own thread of control and every enabled     *)
(* step is eventually taken.                                               *)
(***************************************************************************)
\* the ends of the ranges are at most MaxSpan away from 0 or from 65535
MaxSpan == 1

\* both ends at the bottom of the domain, or both at its top
LoopRanges ==
    { <<l, h>> : l \in 0..MaxSpan, h \in 0..MaxSpan }
    \cup { <<l, h>> : l \in (65535 - MaxSpan)..65535, h \in (65535 - MaxSpan)..65535 }

InitLoop ==
    /\ pc = "enter"
    /\ alg = "SRGE"
    /\ cfg = [bits |-> GRAY_BITS]
    /\ \E rg \in LoopRanges :
        /\ lo = rg[1]
        /\ hi = rg[2]
    /\ result = <<>>
    /\ port_table = NoTable
    /\ coded = <<>>
    /\ tcam = <<>>
    /\ b = 0
    /\ all_ones = 0
    /\ all_zeros = 0
    /\ unwritable = {}
    /\ NoOutput

\* srge_encode and srge_recursive_impl up to the hypercube test: the empty
\* range, the whole domain and the single point return at once
EnterSRGE ==
    /\ pc = "enter"
    /\ IF lo > hi \/ (lo = 0 /\ hi = Pow2(cfg.bits) - 1) \/ lo = hi
       THEN /\ result' = srge_encode(lo, hi, cfg.bits)
            /\ pc' = "done"
            /\ UNCHANGED <<b, all_ones, all_zeros>>
       ELSE /\ b' = gray_to_binary(binary_to_gray(lo))
            /\ all_ones' = 65535
            /\ all_zeros' = 0
            /\ pc' = "hypercube_loop"
            /\ UNCHANGED result
    /\ UNCHANGED <<alg, cfg, lo, hi, port_table, coded, tcam>>
    /\ UNCHANGED io

\* one iteration of "for (uint16_t b = bs; b <= be; ++b)"
HypercubeStep ==
    /\ pc = "hypercube_loop"
    /\ b <= hi
    /\ all_ones' = gray_accumulate_step([ones |-> all_ones, zeros |-> all_zeros], b).ones
    /\ all_zeros' = gray_accumulate_step([ones |-> all_ones, zeros |-> all_zeros], b).zeros
    /\ b' = U16(b + 1)
    /\ UNCHANGED <<pc, alg, cfg, lo, hi, result, port_table, coded, tcam>>
    /\ UNCHANGED io

\* the loop is left when the counter exceeds be; the rest of the call follows
HypercubeExit ==
    /\ pc = "hypercube_loop"
    /\ ~(b <= hi)
    /\ result' = srge_encode(lo, hi, cfg.bits)
    /\ pc' = "done"
    /\ UNCHANGED <<alg, cfg, lo, hi, port_table, coded, tcam, b, all_ones, all_zeros>>
    /\ UNCHANGED io

NextLoop ==
    \/ EnterSRGE
    \/ HypercubeStep
    \/ HypercubeExit

SpecLoop == InitLoop /\ [][NextLoop]_vars /\ WF_vars(NextLoop)

\* C5: SRGE terminates on every well-formed input.  srge_encode(lo, hi, 16)
\* returns for every 0 <= lo <= hi <= 65535, ranges that end at 65535
\* included, with the 16-bit loop counter that wraps modulo 2^16.  A call
\* that returns leaves the loop over [bs, be] once the counter has passed
\* over every value of the range: it is then at the loop exit, from where
\* the call runs to its return.
SRGETerminates ==
    (lo <= hi /\ pc = "hypercube_loop" /\ b \notin lo..hi) => ENABLED HypercubeExit

(***************************************************************************)
(* Calls with an endpoint outside the configured width.  uint16_t          *)
(* arguments carry any value up to 65535 whatever the width, so the        *)
(* encoders of a width below 16 can be handed an endpoint of 2^W or more.  *)
(***************************************************************************)
\* the width in bits of the encoder's domain
WidthOf(a, k) ==
    CASE a = "PFX" -> 16
      [] a = "SRGE" -> k.bits
      [] a = "DIRPE" -> k.total_bits
      [] a = "CGFE" -> k.W

\* the two smallest endpoints that w bits cannot represent; with these the
\* calls stay clear of the shift by -1 that srge_recursive_impl reaches with
\* larger ones
OverWidth(w) == { Pow2(w), Pow2(w) + 1 }

WideInputs ==
    UNION { { [alg |-> "SRGE", cfg |-> [bits |-> w], lo |-> l, hi |-> h] :
                l \in 0..(Pow2(w) + 1), h \in OverWidth(w) } : w \in Widths }
    \cup UNION { { [alg |-> "DIRPE", cfg |-> k, lo |-> l, hi |-> h] :
                    l \in 0..(Pow2(k.total_bits) + 1), h \in OverWidth(k.total_bits) } :
                  k \in DIRPEConfigs }
    \cup UNION { { [alg |-> "CGFE", cfg |-> k, lo |-> l, hi |-> h] :
                    l \in 0..(Pow2(k.W) + 1), h \in OverWidth(k.W) } :
                  k \in CGFEConfigs }

InitWide ==
    /\ pc = "call"
    /\ \E inp \in WideInputs :
        /\ inp.lo <= inp.hi
        /\ alg = inp.alg
        /\ cfg = inp.cfg
        /\ lo = inp.lo
        /\ hi = inp.hi
    /\ port_table = NoTable
    /\ result = <<>>
    /\ coded = <<>>
    /\ tcam = <<>>
    /\ b = 0
    /\ all_ones = 0
    /\ all_zeros = 0
    /\ unwritable = {}
    /\ NoOutput

NextWide ==
    \/ CallSRGE
    \/ CallDIRPE
    \/ CallCGFE

SpecWide == InitWide /\ [][NextWide]_vars

\* C11: InvalidRange.  An encoder called with an endpoint that is not
\* representable in the configured width (hi >= 2^W) fails with an
\* InvalidRange error and returns no patterns for that range.
InvalidRangeRejected ==
    (pc = "done" /\ lo <= hi /\ hi >= Pow2(WidthOf(alg, cfg))) =>
        Strings(alg, cfg, result) = <<>>

(***************************************************************************)
(* Numbers of patterns.                                                    *)
(***************************************************************************)
\* C12: non-expansion of SRGE against PFX.  For every width W and every
\* 0 <= lo <= hi < 2^W, srge_encode(lo, hi, W) returns at most as many
\* patterns as port_range_to_prefixes(lo, hi) returns prefixes.
SRGENonExpansion ==
    (pc = "done" /\ alg = "SRGE" /\ lo <= hi) =>
        Len(result) <= Len(port_range_to_prefixes(lo, hi))

\* C13: SRGE upper bound.  For W in {4, 8, 16} and every
\* 0 <= lo <= hi < 2^W, srge_encode(lo, hi, W) returns at most 2W - 4
\* patterns.
SRGEUpperBound ==
    (pc = "done" /\ alg = "SRGE" /\ cfg.bits \in {4, 8, 16} /\ lo <= hi) =>
        Len(result) <= 2 * cfg.bits - 4

(***************************************************************************)
(* Calls of port_range_to_prefixes with every range below 2^MaxPfxBits     *)
(* and, for every width up to 16, the range [1, 2^W - 2] that needs the    *)
(* most prefixes of that width.                                            *)
(***************************************************************************)
MaxPfxBits == 5

PrefixWidths == 1..16

PrefixInputs ==
    { <<l, h>> : l \in 0..(Pow2(MaxPfxBits) - 1), h \in 0..(Pow2(MaxPfxBits) - 1) }
    \cup { <<1, Pow2(w) - 2>> : w \in PrefixWidths }

InitPrefix ==
    /\ pc = "call"
    /\ alg = "PFX"
    /\ cfg = [bits |-> 16]
    /\ \E r \in PrefixInputs :
        /\ lo = r[1]
        /\ hi = r[2]
    /\ port_table = NoTable
    /\ result = <<>>
    /\ coded = <<>>
    /\ tcam = <<>>
    /\ b = 0
    /\ all_ones = 0
    /\ all_zeros = 0
    /\ unwritable = {}
    /\ NoOutput

NextPrefix == CallPFX

SpecPrefix == InitPrefix /\ [][NextPrefix]_vars

\* C14 as stated: PFX upper bound.  For every W <= 16 and every
\* 0 <= lo <= hi < 2^W, port_range_to_prefixes(lo, hi) returns at most
\* 2W - 2 prefixes.
PFXUpperBoundAnyWidth ==
    (pc = "done" /\ lo <= hi) =>
        \A w \in PrefixWidths : hi < Pow2(w) => Len(result) <= 2 * w - 2

\* C14: PFX upper bound.  For every W with 2 <= W <= 16 and every
\* 0 <= lo <= hi < 2^W, port_range_to_prefixes(lo, hi) returns at most
\* 2W - 2 prefixes (at most 30 for any 16-bit range).
PFXUpperBound ==
    (pc = "done" /\ lo <= hi) =>
        \A w \in PrefixWidths \ {1} : hi < Pow2(w) => Len(result) <= 2 * w - 2

\* the range of 16 bits that takes all 30 prefixes has been expanded
PFXUpperBoundWitness ==
    pc = "done" /\ lo = 1 /\ hi = 65534 /\ Len(result) = 30

(***************************************************************************)
(* The printers and the run of main (main.cpp).  An entry line is kept as  *)
(* its two port fields and its action; the IP fields, the protocol and the *)
(* header and summary lines are left out.  The IP table has one rule per   *)
(* rule of the port table, with the same priority.                         *)
(***************************************************************************)
ip_table_of(table) == [k \in 1..Len(table) |-> [priority |-> table[k].priority]]

\* the lookup "for (const auto& ipr : ip_table) if (ipr.priority == entry.priority)"
has_ip_rule(ip_table, priority) ==
    \E k \in 1..Len(ip_table) : ip_table[k].priority = priority

\* s.substr(s.length() - n)
substr_from_end(s, n) == SubSeq(s, Len(s) - n + 1, Len(s))

RECURSIVE print_tcam_rules(_, _)
print_tcam_rules(tcam_entries, ip_table) ==
    IF tcam_entries = <<>> THEN <<>>
    ELSE LET entry == Head(tcam_entries)
         IN  (IF has_ip_rule(ip_table, entry.priority)
              THEN <<[src_port |-> substr_from_end(entry.src_pattern, 4),
                      dst_port |-> substr_from_end(entry.dst_pattern, 4),
                      action |-> entry.action]>>
              ELSE <<>>)
             \o print_tcam_rules(Tail(tcam_entries), ip_table)

\* the last 8 symbols of a pattern of 8 symbols or more
dirpe_short(pattern) ==
    IF Len(pattern) >= 8 THEN substr_from_end(pattern, 8) ELSE pattern

RECURSIVE print_dirpe_tcam_rules(_, _)
print_dirpe_tcam_rules(tcam_entries, ip_table) ==
    IF tcam_entries = <<>> THEN <<>>
    ELSE LET entry == Head(tcam_entries)
         IN  (IF has_ip_rule(ip_table, entry.priority)
              THEN <<[src_port |-> dirpe_short(entry.src_pattern),
                      dst_port |-> dirpe_short(entry.dst_pattern),
                      action |-> entry.action]>>
              ELSE <<>>)
             \o print_dirpe_tcam_rules(Tail(tcam_entries), ip_table)

\* the inner loop: the entries of the priority of one IP rule
RECURSIVE cgfe_lines_of_priority(_, _)
cgfe_lines_of_priority(tcam_entries, priority) ==
    IF tcam_entries = <<>> THEN <<>>
    ELSE LET port_entry == Head(tcam_entries)
         IN  (IF port_entry.priority # priority THEN <<>>
              ELSE <<[src_port |-> port_entry.src_pattern,
                      dst_port |-> port_entry.dst_pattern,
                      action |-> port_entry.action]>>)
             \o cgfe_lines_of_priority(Tail(tcam_entries), priority)

RECURSIVE print_cgfe_tcam_rules(_, _)
print_cgfe_tcam_rules(tcam_entries, ip_table) ==
    IF ip_table = <<>> THEN <<>>
    ELSE cgfe_lines_of_priority(tcam_entries, Head(ip_table).priority)
            \o print_cgfe_tcam_rules(tcam_entries, Tail(ip_table))

print_prefix_tcam_rules(tcam_entries) ==
    [k \in 1..Len(tcam_entries) |->
        [src_port |-> port_to_binary_with_mask(tcam_entries[k].Src_Port_prefix,
                                               tcam_entries[k].Src_Port_mask),
         dst_port |-> port_to_binary_with_mask(tcam_entries[k].Dst_Port_prefix,
                                               tcam_entries[k].Dst_Port_mask),
         action |-> tcam_entries[k].action]]

\* the tables of a run: the loader numbers the rules, so no two rules share
\* a priority
RunTables ==
    { t \in Tables : \A i \in 1..Len(t) : \A j \in 1..Len(t) :
                        i # j => t[i].priority # t[j].priority }

\* main starts with SRGE; the prefix expansion is a pass of its own
InitRun ==
    /\ pc = "load"
    /\ alg \in {"SRGE", "PFX"}
    /\ cfg = (CHOOSE d \in DriverConfigs : d.alg = alg).cfg
    /\ lo = 0
    /\ hi = 0
    /\ port_table \in RunTables
    /\ result = <<>>
    /\ coded = <<>>
    /\ tcam = <<>>
    /\ b = 0
    /\ all_ones = 0
    /\ all_zeros = 0
    /\ unwritable \in SUBSET (IF alg = "PFX" THEN {"PFX"} ELSE {"SRGE", "DIRPE", "CGFE"})
    /\ NoOutput

\* print_tcam_rules: on a failed open the error is reported and the printer
\* returns
PrintSRGE ==
    /\ pc = "emitted"
    /\ alg = "SRGE"
    /\ IF "SRGE" \in unwritable
       THEN /\ reported' = reported \cup {"SRGE"}
            /\ UNCHANGED written
       ELSE /\ written' = [written EXCEPT
                              !["SRGE"] = print_tcam_rules(tcam, ip_table_of(port_table))]
            /\ UNCHANGED reported
    /\ pc' = "printed"
    /\ UNCHANGED <<alg, cfg, lo, hi, result, port_table, coded, tcam, b, all_ones, all_zeros,
                   unwritable, exit_code>>

PrintDIRPE ==
    /\ pc = "emitted"
    /\ alg = "DIRPE"
    /\ IF "DIRPE" \in unwritable
       THEN /\ reported' = reported \cup {"DIRPE"}
            /\ UNCHANGED written
       ELSE /\ written' = [written EXCEPT
                              !["DIRPE"] = print_dirpe_tcam_rules(tcam, ip_table_of(port_table))]
            /\ UNCHANGED reported
    /\ pc' = "printed"
    /\ UNCHANGED <<alg, cfg, lo, hi, result, port_table, coded, tcam, b, all_ones, all_zeros,
                   unwritable, exit_code>>

PrintCGFE ==
    /\ pc = "emitted"
    /\ alg = "CGFE"
    /\ IF "CGFE" \in unwritable
       THEN /\ reported' = reported \cup {"CGFE"}
            /\ UNCHANGED written
       ELSE /\ written' = [written EXCEPT
                              !["CGFE"] = print_cgfe_tcam_rules(tcam, ip_table_of(port_table))]
            /\ UNCHANGED reported
    /\ pc' = "printed"
    /\ UNCHANGED <<alg, cfg, lo, hi, result, port_table, coded, tcam, b, all_ones, all_zeros,
                   unwritable, exit_code>>

\* print_prefix_tcam_rules: on a failed open the lines go to std::cout and
\* nothing is reported
PrintPFX ==
    /\ pc = "emitted"
    /\ alg = "PFX"
    /\ written' = [written EXCEPT
                      ![IF "PFX" \in unwritable THEN "stdout" ELSE "PFX"] =
                          print_prefix_tcam_rules(tcam)]
    /\ pc' = "printed"
    /\ UNCHANGED <<alg, cfg, lo, hi, result, port_table, coded, tcam, b, all_ones, all_zeros,
                   reported, unwritable, exit_code>>

\* main goes on to the section of the next algorithm
NextAlgorithm ==
    /\ pc = "printed"
    /\ alg \in {"SRGE", "DIRPE"}
    /\ alg' = (IF alg = "SRGE" THEN "DIRPE" ELSE "CGFE")
    /\ cfg' = (CHOOSE d \in DriverConfigs : d.alg = alg').cfg
    /\ pc' = "load"
    /\ UNCHANGED <<lo, hi, result, port_table, coded, tcam, b, all_ones, all_zeros, io>>

\* "return 0" at the end of main
ReturnFromMain ==
    /\ pc = "printed"
    /\ alg = "CGFE"
    /\ exit_code' = 0
    /\ pc' = "exit"
    /\ UNCHANGED <<alg, cfg, lo, hi, result, port_table, coded, tcam, b, all_ones, all_zeros,
                   written, reported, unwritable>>

NextRun ==
    \/ ExpandPFX
    \/ PrintPFX
    \/ EncodeSRGE
    \/ EmitSRGE
    \/ PrintSRGE
    \/ EncodeDIRPE
    \/ EmitDIRPE
    \/ PrintDIRPE
    \/ EncodeCGFE
    \/ EmitCGFE
    \/ PrintCGFE
    \/ NextAlgorithm
    \/ ReturnFromMain

SpecRun == InitRun /\ [][NextRun]_vars

\* the full ternary strings of the two port fields of an entry
FullSrc(e) ==
    IF alg = "PFX" THEN port_to_binary_with_mask(e.Src_Port_prefix, e.Src_Port_mask)
    ELSE e.src_pattern

FullDst(e) ==
    IF alg = "PFX" THEN port_to_binary_with_mask(e.Dst_Port_prefix, e.Dst_Port_mask)
    ELSE e.dst_pattern

\* C15: TCAM output lines carry the complete port ternaries.  In every entry
\* line written by the printers, the source-port and destination-port
\* fields are the entry's full pattern strings, 16 symbols for PFX and SRGE
\* and 24 symbols for DIRPE and CGFE (W = 16, c = 2).
FullPortTernaries ==
    pc = "printed" =>
        \A s \in {alg, "stdout"} : \A k \in 1..Len(written[s]) :
            /\ k <= Len(tcam)
            /\ written[s][k].src_port = FullSrc(tcam[k])
            /\ written[s][k].dst_port = FullDst(tcam[k])
            /\ Len(written[s][k].src_port) = PatternLength(alg, cfg)
            /\ Len(written[s][k].dst_port) = PatternLength(alg, cfg)

\* C16: IOError.  If an output file cannot be opened by one of the printers,
\* the failure is reported and the run aborts with a non-zero exit code: the
\* remaining algorithms are not run and main does not return 0.
IOErrorAborts ==
    /\ (pc = "printed" /\ alg \in unwritable) => alg \in reported
    /\ \A a \in unwritable \cap reported :
          \/ pc = "printed" /\ alg = a
          \/ pc = "exit" /\ exit_code # 0

(***************************************************************************)
(* Properties of the DIRPE decomposition and of the fence encoding of one  *)
(* chunk.                                                                  *)
(***************************************************************************)
\* C17: DIRPE decomposition shape.  For s <= e the subranges of
\* chunk_aligned_decomposition(s, e, cfg) come in ascending order and tile
\* [s, e]: the first starts at s, each next one starts one past the previous
\* end, the last ends at e.  Every subrange is directly encodable, and
\* dirpe_encode_range returns one encoding per subrange in the same order,
\* the i-th matching exactly the values of the i-th subrange.  [2, 9] with
\* 2-bit chunks over 4 bits gives [2,3], [4,7], [8,9] encoded 000*11,
\* 001***, 01100*.
DIRPEDecompositionShape ==
    (pc = "done" /\ alg = "DIRPE" /\ lo <= hi) =>
        LET sub == result.subranges
            enc == result.encodings
            n == Len(sub)
        IN  /\ n >= 1
            /\ sub = chunk_aligned_decomposition(lo, hi, cfg)
            /\ sub[1][1] = lo
            /\ sub[n][2] = hi
            /\ \A i \in 1..n :
                /\ sub[i][1] <= sub[i][2]
                /\ i < n => sub[i + 1][1] = sub[i][2] + 1
                /\ can_directly_encode(sub[i][1], sub[i][2], cfg)
            /\ Len(enc) = n
            /\ \A i \in 1..n : \A v \in 0..(Pow2(cfg.total_bits) - 1) :
                Matches(enc[i], dirpe_encode_value(v, cfg))
                    <=> (sub[i][1] <= v /\ v <= sub[i][2])
            /\ (cfg = [W |-> 2, total_bits |-> 4] /\ lo = 2 /\ hi = 9) =>
                /\ sub = << <<2, 3>>, <<4, 7>>, <<8, 9>> >>
                /\ enc = << <<"0", "0", "0", "*", "1", "1">>,
                            <<"0", "0", "1", "*", "*", "*">>,
                            <<"0", "1", "1", "0", "0", "*">> >>

\* [2, 9] has been decomposed into its three subranges
DIRPEDecompositionWitness ==
    /\ pc = "done"
    /\ alg = "DIRPE"
    /\ cfg = [W |-> 2, total_bits |-> 4]
    /\ lo = 2
    /\ hi = 9
    /\ Len(result.subranges) = 3
    /\ Len(result.encodings) = 3

(***************************************************************************)
(* Calls of the fence encoders of one chunk: dirpe_value_chunk and         *)
(* dirpe_range_chunk of DIRPE, encode_single_chunk and encode_chunk_range  *)
(* of CGFE, for every chunk width up to MaxChunkBits.  cfg holds the chunk *)
(* width c, the kind of call fn and the reflected flag; lo and hi hold the *)
(* chunk values (lo = hi = x for a value call).                            *)
(***************************************************************************)
MaxChunkBits == 4

ChunkCalls ==
    UNION { { [alg |-> a, cfg |-> [c |-> c, fn |-> "range", reflected |-> r],
               lo |-> s, hi |-> e] :
                a \in {"DIRPE", "CGFE"}, r \in BOOLEAN,
                s \in 0..(Pow2(c) - 1), e \in 0..(Pow2(c) - 1) }
            \cup
            { [alg |-> a, cfg |-> [c |-> c, fn |-> "value", reflected |-> r],
               lo |-> x, hi |-> x] :
                a \in {"DIRPE", "CGFE"}, r \in BOOLEAN, x \in 0..(Pow2(c) - 1) } :
            c \in 1..MaxChunkBits }

\* the range calls satisfy the assertion s <= e; the DIRPE functions have no
\* reflected parameter
InitChunk ==
    /\ pc = "chunk_call"
    /\ \E call \in ChunkCalls :
        /\ call.lo <= call.hi
        /\ call.alg = "DIRPE" => ~call.cfg.reflected
        /\ alg = call.alg
        /\ cfg = call.cfg
        /\ lo = call.lo
        /\ hi = call.hi
    /\ port_table = NoTable
    /\ result = <<>>
    /\ coded = <<>>
    /\ tcam = <<>>
    /\ b = 0
    /\ all_ones = 0
    /\ all_zeros = 0
    /\ unwritable = {}
    /\ NoOutput

ValueChunk ==
    /\ pc = "chunk_call"
    /\ alg = "DIRPE"
    /\ cfg.fn = "value"
    /\ result' = dirpe_value_chunk(lo, cfg.c)
    /\ pc' = "chunk_done"
    /\ UNCHANGED <<alg, cfg, lo, hi, port_table, coded, tcam, b, all_ones, all_zeros, io>>

RangeChunk ==
    /\ pc = "chunk_call"
    /\ alg = "DIRPE"
    /\ cfg.fn = "range"
    /\ result' = dirpe_range_chunk(lo, hi, cfg.c)
    /\ pc' = "chunk_done"
    /\ UNCHANGED <<alg, cfg, lo, hi, port_table, coded, tcam, b, all_ones, all_zeros, io>>

SingleChunk ==
    /\ pc = "chunk_call"
    /\ alg = "CGFE"
    /\ cfg.fn = "value"
    /\ result' = encode_single_chunk(lo, cfg.c, cfg.reflected)
    /\ pc' = "chunk_done"
    /\ UNCHANGED <<alg, cfg, lo, hi, port_table, coded, tcam, b, all_ones, all_zeros, io>>

ChunkRange ==
    /\ pc = "chunk_call"
    /\ alg = "CGFE"
    /\ cfg.fn = "range"
    /\ result' = encode_chunk_range(lo, hi, cfg.c, cfg.reflected)
    /\ pc' = "chunk_done"
    /\ UNCHANGED <<alg, cfg, lo, hi, port_table, coded, tcam, b, all_ones, all_zeros, io>>

NextChunk ==
    \/ ValueChunk
    \/ RangeChunk
    \/ SingleChunk
    \/ ChunkRange

SpecChunk == InitChunk /\ [][NextChunk]_vars

\* the fence length L = 2^c - 1 of the call
FenceLength == Pow2(cfg.c) - 1

\* the fence pattern of the chunk value x under the encoder and the
\* reflected flag of the call
FenceWord(x) ==
    IF alg = "DIRPE" THEN dirpe_value_chunk(x, cfg.c)
    ELSE encode_single_chunk(x, cfg.c, cfg.reflected)

\* C18: fence range exactness.  For every chunk width c and every
\* 0 <= s <= e < 2^c, the pattern dirpe_range_chunk(s, e, c) matches
\* dirpe_value_chunk(x, c), 0 <= x < 2^c, if and only if s <= x <= e; the
\* same for encode_chunk_range against encode_single_chunk.
FenceRangeExact ==
    (pc = "chunk_done" /\ cfg.fn = "range") =>
        \A x \in 0..(Pow2(cfg.c) - 1) :
            Matches(result, FenceWord(x)) <=> (lo <= x /\ x <= hi)

\* dirpe_range_chunk(1, 2, 2) has returned 0*1
FenceRangeWitness ==
    /\ pc = "chunk_done"
    /\ alg = "DIRPE"
    /\ cfg.fn = "range"
    /\ cfg.c = 2
    /\ lo = 1
    /\ hi = 2
    /\ result = <<"0", "*", "1">>

\* C19 as stated: fence value form.  For a c-bit chunk with fence length
\* L = 2^c - 1 and every 0 <= x < 2^c, fence_value(x) is L - x - 1 copies
\* of ZERO followed by x copies of ONE.
FenceValueFormShort ==
    (pc = "chunk_done" /\ cfg.fn = "value" /\ ~cfg.reflected) =>
        /\ Len(result) = (FenceLength - lo - 1) + lo
        /\ \A i \in 1..Len(result) :
            result[i] = (IF i <= FenceLength - lo - 1 THEN "0" ELSE "1")

\* C19: fence value form.  For a c-bit chunk with fence length L = 2^c - 1
\* and every 0 <= x < 2^c, fence_value(x) (dirpe_value_chunk(x, c),
\* encode_single_chunk(x, c)) is L - x copies of ZERO followed by x copies
\* of ONE, L symbols in all.
FenceValueForm ==
    (pc = "chunk_done" /\ cfg.fn = "value" /\ ~cfg.reflected) =>
        /\ Len(result) = FenceLength
        /\ \A i \in 1..Len(result) :
            result[i] = (IF i <= FenceLength - lo THEN "0" ELSE "1")

\* dirpe_value_chunk(1, 2) has returned 001
FenceValueWitness ==
    /\ pc = "chunk_done"
    /\ alg = "DIRPE"
    /\ cfg.fn = "value"
    /\ cfg.c = 2
    /\ lo = 1
    /\ result = <<"0", "0", "1">>

(***************************************************************************)
(* One call of srge_recursive_impl taken apart: what the call emits itself *)
(* and the recursive calls it makes, with the locals of the reflection     *)
(* merge.  side is "right" or "left" after a merge and "none" in the base  *)
(* cases; other is the side opposite the merge candidate and removed the   *)
(* slice of it that the remaining range leaves out.                        *)
(***************************************************************************)
srge_leaf(pattern) ==
    [side |-> "none", patterns |-> <<pattern>>, calls |-> <<>>,
     pattern |-> pattern, other |-> <<0, 0>>, removed |-> <<0, 0>>]

srge_step(bs, be, bits) ==
    IF bs = be THEN srge_leaf(gray_to_string(binary_to_gray(bs), bits))
    ELSE IF is_valid_gray_hypercube(bs, be, bits)
         THEN srge_leaf(build_pattern_for_range(bs, be, bits))
    ELSE
    LET sg == binary_to_gray(bs)
        eg == binary_to_gray(be)
        lca_depth == compute_deepest_gray_lca(sg, eg, bits)
        flip_bit_pos == bits - 1 - lca_depth
        sg_bit == Bit(sg, flip_bit_pos)
        pivot == find_pivot(bs, be, flip_bit_pos, sg_bit)
    IN
    IF pivot = 65535 THEN srge_leaf(build_pattern_for_range(bs, be, bits))
    ELSE
    LET left_bs == bs
        left_be == U16(pivot - 1)
        right_bs == pivot
        right_be == be
        left_size == left_be - left_bs + 1
        right_size == right_be - right_bs + 1
    IN
    IF right_size <= left_size
    THEN
        LET merge_end == greedy_max_hypercube(right_bs, right_be, bits)
            merge_size == merge_end - right_bs + 1
            pattern == SetStar(build_pattern_for_range(right_bs, merge_end, bits), lca_depth)
            left_remain_be == U16(left_be - merge_size)
            right_remain_bs == U16(merge_end + 1)
            has_left == left_remain_be >= left_bs
            has_right == right_remain_bs <= right_be
            r_merge_end == greedy_max_hypercube(right_remain_bs, right_be, bits)
            r_merge_size == r_merge_end - right_remain_bs + 1
            l_sym_bs == U16(left_remain_be - r_merge_size + 1)
            r_pat == build_pattern_for_range(right_remain_bs, r_merge_end, bits)
            l_pat == build_pattern_for_range(l_sym_bs, left_remain_be, bits)
            sub_lca == compute_deepest_gray_lca(binary_to_gray(l_sym_bs),
                                                binary_to_gray(right_remain_bs), bits)
            second == /\ has_left
                      /\ has_right
                      /\ r_merge_size <= left_remain_be - left_bs + 1
                      /\ can_merge_patterns(l_pat, r_pat, sub_lca, bits)
        IN  [side |-> "right",
             patterns |-> IF second THEN <<pattern, SetStar(l_pat, sub_lca)>>
                          ELSE <<pattern>>,
             calls |-> IF second
                       THEN (IF l_sym_bs > left_bs
                             THEN << <<left_bs, U16(l_sym_bs - 1)>> >> ELSE <<>>)
                            \o (IF r_merge_end < right_be
                                THEN << <<U16(r_merge_end + 1), right_be>> >> ELSE <<>>)
                       ELSE (IF has_left THEN << <<left_bs, left_remain_be>> >> ELSE <<>>)
                            \o (IF has_right THEN << <<right_remain_bs, right_be>> >> ELSE <<>>),
             pattern |-> pattern,
             other |-> <<left_bs, left_be>>,
             removed |-> <<left_be - merge_size + 1, left_be>>]
    ELSE
        LET merge_end == greedy_max_hypercube(left_bs, left_be, bits)
            merge_size == merge_end - left_bs + 1
            pattern == SetStar(build_pattern_for_range(left_bs, merge_end, bits), lca_depth)
            left_remain_bs == U16(merge_end + 1)
            right_remain_bs == U16(right_bs + merge_size)
        IN  [side |-> "left",
             patterns |-> <<pattern>>,
             calls |-> (IF left_remain_bs <= left_be
                        THEN << <<left_remain_bs, left_be>> >> ELSE <<>>)
                       \o (IF right_remain_bs <= right_be
                           THEN << <<right_remain_bs, right_be>> >> ELSE <<>>),
             pattern |-> pattern,
             other |-> <<right_bs, right_be>>,
             removed |-> <<right_bs, right_bs + merge_size - 1>>]

\* the arguments srge_encode hands to srge_recursive: every range but the
\* empty ones and the whole domain
StepInputs ==
    UNION { { [bits |-> w, bs |-> l, be |-> h] :
                l \in 0..(Pow2(w) - 1), h \in 0..(Pow2(w) - 1) } : w \in Widths }

InitStep ==
    /\ pc = "recurse"
    /\ alg = "SRGE"
    /\ \E inp \in StepInputs :
        /\ inp.bs <= inp.be
        /\ ~(inp.bs = 0 /\ inp.be = Pow2(inp.bits) - 1)
        /\ cfg = [bits |-> inp.bits]
        /\ lo = gray_to_binary(binary_to_gray(inp.bs))
        /\ hi = gray_to_binary(binary_to_gray(inp.be))
    /\ port_table = NoTable
    /\ result = <<>>
    /\ coded = <<>>
    /\ tcam = <<>>
    /\ b = 0
    /\ all_ones = 0
    /\ all_zeros = 0
    /\ unwritable = {}
    /\ NoOutput

\* the body of srge_recursive_impl(lo, hi, bits) up to its recursive calls
SrgeStep ==
    /\ pc = "recurse"
    /\ lo <= hi
    /\ result' = srge_step(lo, hi, cfg.bits)
    /\ pc' = (IF result'.calls = <<>> THEN "returned" ELSE "merged")
    /\ UNCHANGED <<alg, cfg, lo, hi, port_table, coded, tcam, b, all_ones, all_zeros, io>>

\* one of the recursive calls of the step
SrgeRecurse ==
    /\ pc = "merged"
    /\ \E k \in 1..Len(result.calls) :
        /\ lo' = result.calls[k][1]
        /\ hi' = result.calls[k][2]
    /\ result' = <<>>
    /\ pc' = "recurse"
    /\ UNCHANGED <<alg, cfg, port_table, coded, tcam, b, all_ones, all_zeros, io>>

NextStep ==
    \/ SrgeStep
    \/ SrgeRecurse

SpecStep == InitStep /\ [][NextStep]_vars

\* C20: SRGE reflection bookkeeping.  In every recursive step of
\* srge_recursive_impl, whichever side is the merge candidate, the pattern
\* emitted with the branch bit set to '*' matches on the other side exactly
\* the slice the step removes from that side before recursing, the
\* merge_size values next to the pivot: no value of the removed slice is
\* left unmatched and no value the step keeps is matched.
ReflectionBookkeeping ==
    (pc \in {"merged", "returned"} /\ result.side # "none") =>
        \A v \in result.other[1]..result.other[2] :
            Matches(result.pattern, srge_codeword(v, cfg.bits))
                <=> (result.removed[1] <= v /\ v <= result.removed[2])

(***************************************************************************)
(* Blocks of a CGFE range.                                                 *)
(***************************************************************************)
\* the strings of the CGFE result that match the codeword of v
CGFEMatching(v) ==
    LET strings == cgfe_to_ternary(result, cfg)
    IN  { j \in 1..Len(strings) : Matches(strings[j], cgfe_codeword(v, cfg)) }

\* C21: middle blocks of an even block distance.  When MSC(hi) - MSC(lo) is
\* even and at least 2, every value of every block strictly between MSC(lo)
\* and MSC(hi) is matched by at least one emitted pattern, for all tail
\* offsets TC(lo) and TC(hi).
CGFEMiddleBlocksCovered ==
    (/\ pc = "done" /\ alg = "CGFE" /\ lo <= hi
     /\ (cgfe_msc(hi, cfg) - cgfe_msc(lo, cfg)) % 2 = 0
     /\ cgfe_msc(hi, cfg) - cgfe_msc(lo, cfg) >= 2) =>
        \A v \in lo..hi :
            (cgfe_msc(lo, cfg) < cgfe_msc(v, cfg) /\ cgfe_msc(v, cfg) < cgfe_msc(hi, cfg))
                => CGFEMatching(v) # {}

(***************************************************************************)
(* Values outside the range.                                               *)
(***************************************************************************)
\* C22: SRGE never over-covers.  For every width W and every
\* 0 <= lo <= hi < 2^W, every W-bit code matched by a pattern of
\* srge_encode(lo, hi, W) is the Gray code of some v with lo <= v <= hi,
\* the patterns with the branch bit set to '*' and the second-level merged
\* patterns included.
SRGENoOverCover ==
    (pc = "done" /\ alg = "SRGE" /\ lo <= hi /\ hi < Pow2(cfg.bits)) =>
        \A j \in 1..Len(result) :
            \A code \in 0..(Pow2(cfg.bits) - 1) :
                Matches(result[j], gray_to_string(code, cfg.bits))
                    => InRange(gray_to_binary(code))

\* [0, 6] at width 3: the first pattern has the branch bit set to '*', the
\* second is a second-level merged pattern, and 7 lies outside the range
SRGENoOverCoverWitness ==
    /\ pc = "done"
    /\ alg = "SRGE"
    /\ cfg.bits = 3
    /\ lo = 0
    /\ hi = 6
    /\ result = << <<"*", "1", "*">>, <<"*", "0", "1">>, <<"0", "0", "0">> >>
    /\ ~Matches(result[1], srge_codeword(7, 3))
    /\ ~Matches(result[2], srge_codeword(7, 3))

(***************************************************************************)
(* Calls of the CGFE encoder alone: every range of every configuration.    *)
(***************************************************************************)
InitBlocks ==
    /\ pc = "call"
    /\ \E inp \in Inputs :
        /\ inp.alg = "CGFE"
        /\ alg = inp.alg
        /\ cfg = inp.cfg
        /\ lo = inp.lo
        /\ hi = inp.hi
    /\ port_table = NoTable
    /\ result = <<>>
    /\ coded = <<>>
    /\ tcam = <<>>
    /\ b = 0
    /\ all_ones = 0
    /\ all_zeros = 0
    /\ unwritable = {}
    /\ NoOutput

NextBlocks == CallCGFE

SpecBlocks == InitBlocks /\ [][NextBlocks]_vars

\* C23: CGFE never over-covers.  For every valid (W, c) and every
\* 0 <= lo <= hi < 2^W, every value whose codeword is matched by an emitted
\* pattern lies in [lo, hi]: the entries whose MSC field spans several
\* blocks match nothing below lo in block MSC(lo), nothing above hi in
\* block MSC(hi) and nothing in a block outside [MSC(lo), MSC(hi)].
CGFENoOverCover ==
    (pc = "done" /\ alg = "CGFE" /\ cfg.W % cfg.c = 0 /\ lo <= hi) =>
        LET strings == cgfe_to_ternary(result, cfg)
        IN  \A v \in (0..(Pow2(cfg.W) - 1)) \ (lo..hi) :
                \A j \in 1..Len(strings) : ~Matches(strings[j], cgfe_codeword(v, cfg))

\* [5, 10] at (4, 2): an entry spans the blocks 1 and 2; 4 lies below lo in
\* block 1, 11 above hi in block 2, and blocks 0 and 3 lie outside
CGFENoOverCoverWitness ==
    /\ pc = "done"
    /\ alg = "CGFE"
    /\ cfg = [W |-> 4, c |-> 2]
    /\ lo = 5
    /\ hi = 10
    /\ \E j \in 1..Len(result) : result[j].msc_lo = 1 /\ result[j].msc_hi = 2
    /\ CGFEMatching(5) # {}
    /\ CGFEMatching(4) = {}
    /\ CGFEMatching(11) = {}
    /\ CGFEMatching(0) = {}
    /\ CGFEMatching(15) = {}

(***************************************************************************)
(* Calls of encode_tc_range alone: a tail range inside one block, encoded  *)
(* for a block of either MSC parity.                                       *)
(***************************************************************************)
\* the configurations have tails of no chunk (W = c), of one chunk and of
\* several chunks
TailCalls ==
    UNION { { [cfg |-> [W |-> k.W, c |-> k.c, msc_parity |-> p], lo |-> s, hi |-> e] :
                p \in BOOLEAN,
                s \in 0..(block_size(k) - 1), e \in 0..(block_size(k) - 1) } :
            k \in CGFEConfigs }

InitTail ==
    /\ pc = "tc_call"
    /\ alg = "CGFE"
    /\ \E call \in TailCalls :
        /\ call.lo <= call.hi
        /\ cfg = call.cfg
        /\ lo = call.lo
        /\ hi = call.hi
    /\ port_table = NoTable
    /\ result = <<>>
    /\ coded = <<>>
    /\ tcam = <<>>
    /\ b = 0
    /\ all_ones = 0
    /\ all_zeros = 0
    /\ unwritable = {}
    /\ NoOutput

TcRange ==
    /\ pc = "tc_call"
    /\ result' = encode_tc_range(lo, hi, cfg, 0, cfg.msc_parity)
    /\ pc' = "tc_done"
    /\ UNCHANGED <<alg, cfg, lo, hi, port_table, coded, tcam, b, all_ones, all_zeros, io>>

NextTail == TcRange

SpecTail == InitTail /\ [][NextTail]_vars

\* the tail of the codeword of a value with tail t in a block of parity p:
\* the single tail pattern of the range [t, t]
TailWord(t, p) == encode_tc_range(t, t, cfg, 0, p)[1]

\* the tails whose codeword in a block of parity p some result pattern matches
TailsMatched(p) ==
    { t \in 0..(block_size(cfg) - 1) :
        \E j \in 1..Len(result) : Matches(result[j], TailWord(t, p)) }

\* C24: CGFE reflection property.  For every parity p and every tail range
\* [tc_lo, tc_hi] inside one block, the patterns of
\* encode_tc_range(tc_lo, tc_hi, cfg, 0, p) match, among the codeword tails
\* of a block of parity p, exactly the tails of [tc_lo, tc_hi], and among
\* those of a block of the opposite parity exactly the tails of
\* [block_size - 1 - tc_hi, block_size - 1 - tc_lo]; the tail codeword of t
\* in one block is the tail codeword of block_size - 1 - t in an adjacent
\* block, also when the tail has several chunks.
TailReflection ==
    pc = "tc_done" =>
        LET bs == block_size(cfg)
        IN  /\ TailsMatched(cfg.msc_parity) = lo..hi
            /\ TailsMatched(~cfg.msc_parity) = (bs - 1 - hi)..(bs - 1 - lo)
            /\ \A t \in 0..(bs - 1) :
                  TailWord(t, cfg.msc_parity) = TailWord(bs - 1 - t, ~cfg.msc_parity)

\* a two-chunk tail range that is decomposed into several patterns and is
\* not its own mirror image
TailReflectionWitness ==
    /\ pc = "tc_done"
    /\ cfg = [W |-> 6, c |-> 2, msc_parity |-> TRUE]
    /\ lo = 3
    /\ hi = 9
    /\ Len(result) > 1
    /\ 3 \in TailsMatched(TRUE)
    /\ 3 \notin TailsMatched(FALSE)
    /\ 12 \in TailsMatched(FALSE)

(***************************************************************************)
(* Codewords of neighbouring values.                                       *)
(***************************************************************************)
\* the positions at which two strings of one length differ
SymbolsDiffering(u, w) == { i \in 1..Len(u) : u[i] # w[i] }

\* C25: Gray property of the CGFE value encoding.  For every valid (W, c)
\* and every 0 <= x < 2^W - 1, the codewords of x and x + 1 (the patterns
\* of the singleton ranges [x, x] and [x + 1, x + 1]) differ in exactly one
\* symbol, also when x and x + 1 lie in different blocks.
CGFEGrayProperty ==
    (pc = "done" /\ alg = "CGFE" /\ cfg.W % cfg.c = 0 /\ lo = hi /\ lo < Pow2(cfg.W) - 1) =>
        LET strings == cgfe_to_ternary(result, cfg)
            next == cgfe_to_ternary(cgfe_encode_range(lo + 1, lo + 1, cfg, 0), cfg)
        IN  /\ Len(strings) = 1
            /\ Len(next) = 1
            /\ Len(strings[1]) = Len(next[1])
            /\ Cardinality(SymbolsDiffering(strings[1], next[1])) = 1

\* 15 and 16 at (6, 2): the last value of block 0 and the first of block 1,
\* with a two-chunk tail; the one differing symbol lies in the MSC field
CGFEGrayPropertyWitness ==
    /\ pc = "done"
    /\ alg = "CGFE"
    /\ cfg = [W |-> 6, c |-> 2]
    /\ lo = 15
    /\ hi = 15
    /\ cgfe_msc(lo + 1, cfg) = cgfe_msc(lo, cfg) + 1
    /\ SymbolsDiffering(cgfe_to_ternary(result, cfg)[1], cgfe_codeword(16, cfg)) = {3}

(***************************************************************************)
(* The point encoder against the range encoder.                            *)
(***************************************************************************)
\* the tail encode_tc_point gives the value x: of TC(x) in a block of even
\* MSC, of the mirrored tail in a block of odd MSC
PointTail(x) ==
    LET tc == cgfe_tc(x, cfg)
    IN  encode_tc_point(IF cgfe_msc(x, cfg) % 2 = 0 THEN tc ELSE block_size(cfg) - 1 - tc, cfg)

\* C29: the point encoder agrees with the range encoder.  For every valid
\* (W, c) and every 0 <= x < 2^W, the single string of
\* cgfe_to_ternary(cgfe_encode_range(x, x, cfg), cfg) is fence_value(MSC(x))
\* followed by encode_tc_point(TC(x), cfg) when MSC(x) is even and by
\* encode_tc_point(block_size - 1 - TC(x), cfg) when MSC(x) is odd.
PointAgreesWithRange ==
    (pc = "done" /\ alg = "CGFE" /\ cfg.W % cfg.c = 0 /\ lo = hi) =>
        cgfe_to_ternary(result, cfg)
            = << encode_single_chunk(cgfe_msc(lo, cfg), cfg.c, FALSE) \o PointTail(lo) >>

\* 27 at (6, 2): block 1 is odd, the tail 11 is encoded as the tail 4, and
\* the point encoding of the tail 11 itself is a different string
PointAgreesWithRangeWitness ==
    /\ pc = "done"
    /\ alg = "CGFE"
    /\ cfg = [W |-> 6, c |-> 2]
    /\ lo = 27
    /\ hi = 27
    /\ cgfe_msc(lo, cfg) = 1
    /\ result[1].tc_pattern = encode_tc_point(4, cfg)
    /\ result[1].tc_pattern # encode_tc_point(11, cfg)

(***************************************************************************)
(* Calls of is_valid_gray_hypercube and build_pattern_for_range on one     *)
(* range of binary values.                                                 *)
(***************************************************************************)
CubeInputs ==
    UNION { { [bits |-> w, bs |-> s, be |-> e] :
                s \in 0..(Pow2(w) - 1), e \in 0..(Pow2(w) - 1) } : w \in Widths }

InitCube ==
    /\ pc = "cube_call"
    /\ alg = "SRGE"
    /\ \E inp \in CubeInputs :
        /\ cfg = [bits |-> inp.bits]
        /\ lo = inp.bs
        /\ hi = inp.be
    /\ port_table = NoTable
    /\ result = <<>>
    /\ coded = <<>>
    /\ tcam = <<>>
    /\ b = 0
    /\ all_ones = 0
    /\ all_zeros = 0
    /\ unwritable = {}
    /\ NoOutput

HypercubeCall ==
    /\ pc = "cube_call"
    /\ result' = [valid |-> is_valid_gray_hypercube(lo, hi, cfg.bits),
                  pattern |-> build_pattern_for_range(lo, hi, cfg.bits)]
    /\ pc' = "cube_done"
    /\ UNCHANGED <<alg, cfg, lo, hi, port_table, coded, tcam, b, all_ones, all_zeros, io>>

NextCube == HypercubeCall

SpecCube == InitCube /\ [][NextCube]_vars

\* the Gray codes of the values of [lo, hi]
GrayCodesOfRange == { binary_to_gray(v) : v \in lo..hi }

\* the codes of the width the pattern of the range matches
CodesOfPattern ==
    { g \in 0..(Pow2(cfg.bits) - 1) : Matches(result.pattern, gray_to_string(g, cfg.bits)) }

\* the bit positions at which two Gray codes of the range differ
VaryingBits ==
    { i \in 0..(cfg.bits - 1) :
        \E u \in GrayCodesOfRange, w \in GrayCodesOfRange : Bit(u, i) # Bit(w, i) }

\* C26: hypercube test.  For every width W and every bs <= be < 2^W,
\* is_valid_gray_hypercube(bs, be, W) is true if and only if the set of
\* Gray codes {G(bs), ..., G(be)} is exactly the set of W-bit codes matched
\* by build_pattern_for_range(bs, be, W), that is if and only if
\* be - bs + 1 = 2^k with k the number of bit positions that vary across
\* those codes.
HypercubeTest ==
    (pc = "cube_done" /\ lo <= hi) =>
        /\ result.valid <=> (GrayCodesOfRange = CodesOfPattern)
        /\ result.valid <=> (hi - lo + 1 = Pow2(Cardinality(VaryingBits)))

\* [1, 4] at width 3: four values, a power of two, whose Gray codes vary in
\* all three positions; the pattern *** matches eight codes
HypercubeTestWitness ==
    /\ pc = "cube_done"
    /\ cfg.bits = 3
    /\ lo = 1
    /\ hi = 4
    /\ result = [valid |-> FALSE, pattern |-> <<"*", "*", "*">>]
    /\ Cardinality(CodesOfPattern) = 8
    /\ Cardinality(GrayCodesOfRange) = 4

(***************************************************************************)
(* Residual entries of an odd block distance.                              *)
(***************************************************************************)
\* the entries of the result that lie in the single block m
EntriesInBlock(m) ==
    { j \in 1..Len(result) : result[j].msc_lo = m /\ result[j].msc_hi = m }

\* C27: CGFE residuals for an odd block distance.  When MSC(hi) - MSC(lo) is
\* odd, single-block residual entries are emitted on at most one side:
\* in block MSC(lo) only if TC(hi) < block_size - 1 - TC(lo), in block
\* MSC(hi) only if TC(hi) > block_size - 1 - TC(lo), never in both; when the
\* distance is 1 and TC(lo) + TC(hi) = block_size - 1 every entry has the
\* MSC range [MSC(lo), MSC(hi)]; [6, 9] at W = 4, c = 2 gives the single
\* pattern 0*100*.
OddDistanceResiduals ==
    (/\ pc = "done" /\ alg = "CGFE" /\ cfg.W % cfg.c = 0 /\ lo <= hi
     /\ (cgfe_msc(hi, cfg) - cgfe_msc(lo, cfg)) % 2 = 1) =>
        LET msc_s == cgfe_msc(lo, cfg)
            msc_e == cgfe_msc(hi, cfg)
            tc_s == cgfe_tc(lo, cfg)
            tc_e == cgfe_tc(hi, cfg)
            bs == block_size(cfg)
        IN  /\ EntriesInBlock(msc_s) # {} => tc_e < bs - 1 - tc_s
            /\ EntriesInBlock(msc_e) # {} => tc_e > bs - 1 - tc_s
            /\ EntriesInBlock(msc_s) = {} \/ EntriesInBlock(msc_e) = {}
            /\ (msc_e - msc_s = 1 /\ tc_s + tc_e = bs - 1) =>
                  /\ result # <<>>
                  /\ \A j \in 1..Len(result) :
                        result[j].msc_lo = msc_s /\ result[j].msc_hi = msc_e
            /\ (cfg = [W |-> 4, c |-> 2] /\ lo = 6 /\ hi = 9) =>
                  cgfe_to_ternary(result, cfg) = << <<"0", "*", "1", "0", "0", "*">> >>

\* [6, 9] at (4, 2): block distance 1 and TC(lo) + TC(hi) = 2 + 1 = 3, one
\* entry over the MSC range [1, 2] and no residual
OddDistanceResidualsWitness ==
    /\ pc = "done"
    /\ alg = "CGFE"
    /\ cfg = [W |-> 4, c |-> 2]
    /\ lo = 6
    /\ hi = 9
    /\ Len(result) = 1
    /\ result[1].msc_lo = 1
    /\ result[1].msc_hi = 2
    /\ EntriesInBlock(1) = {}
    /\ EntriesInBlock(2) = {}

(***************************************************************************)
(* The blocks of a prefix expansion.                                       *)
(***************************************************************************)
\* C28: PFX greedy blocks.  For every 0 <= lo <= hi <= 65535 the blocks of
\* port_range_to_prefixes(lo, hi) come in strictly ascending order and tile
\* [lo, hi] without overlap; a block of size 2^k starts at a multiple of
\* 2^k, its mask is 0xFFFF shifted left by k within 16 bits (the low
\* 16 - k bits of 0xFFFF moved up by k), and k is the largest value
\* for which the block is aligned at the cursor and does not exceed hi;
\* [0, 65535] is the one block with k = 16.
PFXGreedyBlocks ==
    (pc = "done" /\ alg = "PFX" /\ lo <= hi) =>
        /\ result # <<>>
        /\ result[1].prefix = lo
        /\ \A j \in 1..Len(result) :
            \E k \in 0..16 :
                /\ result[j].mask = (65535 % Pow2(16 - k)) * Pow2(k)
                /\ result[j].prefix % Pow2(k) = 0
                /\ BitAnd(result[j].prefix, 65535 - result[j].mask) = 0
                /\ IF j < Len(result)
                   THEN result[j + 1].prefix = result[j].prefix + Pow2(k)
                   ELSE result[j].prefix + Pow2(k) - 1 = hi
                /\ \/ k = 16
                   \/ result[j].prefix % Pow2(k + 1) # 0
                   \/ result[j].prefix + Pow2(k + 1) - 1 > hi
        /\ (lo = 0 /\ hi = 65535) => result = <<[prefix |-> 0, mask |-> 0]>>

\* [3, 65533]: the block sizes grow from 1 at the cursor 3 up to 2^15 and
\* shrink again towards hi
PFXGreedyBlocksWitness ==
    /\ pc = "done"
    /\ alg = "PFX"
    /\ lo = 3
    /\ hi = 65533
    /\ Len(result) > 10
    /\ result[1] = [prefix |-> 3, mask |-> 65535]
    /\ result[2] = [prefix |-> 4, mask |-> 65532]
    /\ \E j \in 1..Len(result) : result[j] = [prefix |-> 32768, mask |-> 49152]

(***************************************************************************)
(* The CGFE driver under any configuration: CGFE_encode_ports followed by  *)
(* generate_cgfe_tcam_entries on a port table.                             *)
(***************************************************************************)
\* the chunk parameters that divide the port width
ProductConfigs == { [W |-> 16, c |-> c] : c \in {1, 2, 4, 8} }

InitProduct ==
    /\ pc = "load"
    /\ alg = "CGFE"
    /\ cfg \in ProductConfigs
    /\ lo = 0
    /\ hi = 0
    /\ port_table \in Tables
    /\ result = <<>>
    /\ coded = <<>>
    /\ tcam = <<>>
    /\ b = 0
    /\ all_ones = 0
    /\ all_zeros = 0
    /\ unwritable = {}
    /\ NoOutput

NextProduct ==
    \/ EncodeCGFE
    \/ EmitCGFE

SpecProduct == InitProduct /\ [][NextProduct]_vars

\* C30: the CGFE rule product renders entries under the configuration that
\* encoded them.  For every configuration cfg passed to CGFE_encode_ports,
\* the src and dst strings of the entries generate_cgfe_tcam_entries gives a
\* rule are those of cgfe_to_ternary(src_cgfe, cfg) and
\* cgfe_to_ternary(dst_cgfe, cfg), so the MSC field has 2^c - 1 symbols for
\* the c used to encode.
RenderedAsEncoded ==
    (pc = "emitted" /\ alg = "CGFE") =>
        /\ tcam = Concat([k \in 1..Len(coded) |->
                    tcam_product(cgfe_to_ternary(coded[k].src, cfg),
                                 cgfe_to_ternary(coded[k].dst, cfg),
                                 coded[k].priority, coded[k].action)])
        /\ \A k \in 1..Len(tcam) :
            /\ Len(tcam[k].src_pattern) = PatternLength("CGFE", cfg)
            /\ Len(tcam[k].dst_pattern) = PatternLength("CGFE", cfg)

====
